---------------------------- MODULE Spec2Model ----------------------------
(***************************************************************************)
(* Datasage: the dataset profiling and preprocessing pipeline.             *)
(*                                                                         *)
(* Tables are sequences of columns; a column is a record                   *)
(*   [name |-> <sequence of characters>, dtype |-> <dtype>, cells |-> ...] *)
(* Every cell is an integer:                                               *)
(*   - NaN is the null cell (numpy.nan, None, NaT);                        *)
(*   - in a numeric column (int64, float64) a cell holds the value in      *)
(*     half units (Num(v) = 2*v), so that the median of an even number of  *)
(*     whole values, which the missing value handler writes back into the  *)
(*     table, is exact;                                                    *)
(*   - in a datetime64 column a cell is a day number;                      *)
(*   - in a bool column a cell is PyFalse or PyTrue;                       *)
(*   - in an object column a cell is PyFalse, PyTrue (Python bool objects) *)
(*     or the code of a string of Strings.                                 *)
(* Column names are sequences of one-character strings, so that the        *)
(* regular expressions and the substring tests of the code can be          *)
(* computed character by character.                                        *)
(***************************************************************************)
EXTENDS Integers, Sequences, FiniteSets, TLC

(***************************************************************************)
(* Bounds of the model.                                                    *)
(***************************************************************************)
\* rows of a table handed to the missing value handler
MaxRows == 22
\* nulls are injected in the first NullWindow rows of a column
NullWindow == 2
\* columns of a table handed to the column normalizer
MaxNormCols == 3
\* rows of a table handed to the schema analyzer
MaxSchemaRows == 6
\* rows of a table handed to the summarizer
MaxSummaryRows == 12
\* outlier values an input column holds
MaxOutliers == 1
\* all-null columns beside the numeric column of a summarized table
MaxNullCols == 3
\* nulls or outliers injected into a summarized table
MaxInjections == 1
\* most rows of a table handed to the pipeline
MaxPipelineRows == 21

(***************************************************************************)
(* Cells.                                                                  *)
(***************************************************************************)
NaN == -99999
PyFalse == 0
PyTrue == 1

Num(v) == 2 * v

IsNull(c) == c = NaN

\* The strings an object column may hold, by code, in Python's string order.
Strings ==
  (2 :> " bob ") @@ (3 :> "2024-01-01") @@ (4 :> "2024-01-02") @@ (5 :> "7") @@
  (6 :> "False") @@ (7 :> "Missing") @@ (8 :> "True") @@
  (9 :> "a long free-text note about the incident, kept verbatim.") @@
  (10 :> "alice") @@ (11 :> "bob") @@ (12 :> "nan") @@ (13 :> "no") @@
  (14 :> "the quick brown fox jumps over the lazy dog, twice over.") @@
  (15 :> "yes")

\* the code of a string
CodeOf(s) == CHOOSE c \in DOMAIN Strings : Strings[c] = s

StrPadded == CodeOf(" bob ")
StrDate1 == CodeOf("2024-01-01")
StrDate2 == CodeOf("2024-01-02")
StrSeven == CodeOf("7")
StrFalse == CodeOf("False")
StrMissing == CodeOf("Missing")
StrTrue == CodeOf("True")
StrLongA == CodeOf("a long free-text note about the incident, kept verbatim.")
StrAlice == CodeOf("alice")
StrBob == CodeOf("bob")
StrNan == CodeOf("nan")
StrNo == CodeOf("no")
StrLongT == CodeOf("the quick brown fox jumps over the lazy dog, twice over.")
StrYes == CodeOf("yes")

IsStr(c) == c \in DOMAIN Strings

\* str(x) of the cell of an object column
StrOf(c) == IF c = PyTrue THEN "True" ELSE IF c = PyFalse THEN "False" ELSE Strings[c]

IsBool(c) == c \in {PyFalse, PyTrue}

(***************************************************************************)
(* Sequences.                                                              *)
(***************************************************************************)
Range(s) == {s[i] : i \in 1..Len(s)}

Min2(a, b) == IF a <= b THEN a ELSE b

Max2(a, b) == IF a >= b THEN a ELSE b

Head_n(s, n) == SubSeq(s, 1, Min2(n, Len(s)))

RECURSIVE Insert(_, _)
Insert(x, s) ==
  IF s = <<>> THEN <<x>>
  ELSE IF x <= Head(s) THEN <<x>> \o s
  ELSE <<Head(s)>> \o Insert(x, Tail(s))

RECURSIVE SortCells(_)
SortCells(s) == IF s = <<>> THEN <<>> ELSE Insert(Head(s), SortCells(Tail(s)))

\* Series.dropna()
DropNa(cells) == SelectSeq(cells, LAMBDA c : ~IsNull(c))

\* Series.isnull().sum()
NullCount(cells) == Len(cells) - Len(DropNa(cells))

\* Series.nunique(): distinct non-null values
NUnique(cells) == Cardinality(Range(DropNa(cells)))

CountOf(v, cells) == Len(SelectSeq(cells, LAMBDA c : c = v))

(***************************************************************************)
(* Tables.                                                                 *)
(***************************************************************************)
Column(name, dtype, cells) == [name |-> name, dtype |-> dtype, cells |-> cells]

ColumnNames(df) == [i \in 1..Len(df.columns) |-> df.columns[i].name]

\* len(df)
NRows(df) == IF df.columns = <<>> THEN 0 ELSE Len(df.columns[1].cells)

\* positions of the columns called col
Positions(df, col) == {i \in 1..Len(df.columns) : df.columns[i].name = col}

HasColumn(df, col) == Positions(df, col) # {}

\* df[col] for a column name held once
GetColumn(df, col) == df.columns[CHOOSE i \in Positions(df, col) : TRUE]

\* df[col] = series: overwrites the column where it stands, or appends it
SetColumn(df, col, dtype, cells) ==
  IF HasColumn(df, col)
  THEN [df EXCEPT !.columns =
          [i \in 1..Len(df.columns) |->
             IF df.columns[i].name = col
             THEN Column(col, dtype, cells) ELSE df.columns[i]]]
  ELSE [df EXCEPT !.columns = Append(df.columns, Column(col, dtype, cells))]

is_numeric_dtype(dtype) == dtype \in {"int64", "float64", "bool"}

is_datetime64_any_dtype(dtype) == dtype = "datetime64"

is_object_dtype(dtype) == dtype = "object"

is_integer_dtype(dtype) == dtype = "int64"

is_bool_dtype(dtype) == dtype = "bool"

(***************************************************************************)
(* PipelineContext: the schema is a dict, kept as the sequence of its      *)
(* <<key, role>> items in insertion order.                                 *)
(***************************************************************************)
DictHas(d, k) == \E i \in 1..Len(d) : d[i][1] = k

DictGet(d, k, default) ==
  IF DictHas(d, k) THEN d[CHOOSE i \in 1..Len(d) : d[i][1] = k][2] ELSE default

DictSet(d, k, v) ==
  IF DictHas(d, k)
  THEN [i \in 1..Len(d) |-> IF d[i][1] = k THEN <<k, v>> ELSE d[i]]
  ELSE Append(d, <<k, v>>)

PipelineContext(domain, is_dask) ==
  [domain |-> domain, schema |-> <<>>, is_dask |-> is_dask, warnings |-> <<>>]

StepResult(df, logs, warnings, modified_columns, context, raised) ==
  [df |-> df, logs |-> logs, warnings |-> warnings,
   modified_columns |-> modified_columns, context |-> context, raised |-> raised]

\* a log entry of the action for the column
HasLog(logs, action, col) ==
  \E i \in 1..Len(logs) : logs[i].action = action /\ logs[i].column_name = col

\* a warning of the kind about the column
HasWarning(warnings, kind, col) ==
  \E i \in 1..Len(warnings) : warnings[i].kind = kind /\ warnings[i].column = col

(***************************************************************************)
(* MissingValueHandler (steps/missing_handler.py).                         *)
(***************************************************************************)
WasMissingSuffix == <<"_", "w", "a", "s", "_", "m", "i", "s", "s", "i", "n", "g">>

\* Series.median(), in the cells' half units; NaN for an all-null series
Median(cells) ==
  LET s == SortCells(DropNa(cells))
      n == Len(s)
  IN  IF n = 0 THEN NaN
      ELSE IF n % 2 = 1 THEN s[(n + 1) \div 2]
      ELSE (s[n \div 2] + s[n \div 2 + 1]) \div 2

\* dask's Series.quantile(0.5): an approximate quantile, one of the two
\* middle values of the sorted series (pick chooses which)
DaskQuantileHalf(cells, pick) ==
  LET s == SortCells(DropNa(cells))
      n == Len(s)
  IN  IF n = 0 THEN NaN
      ELSE IF n % 2 = 1 THEN s[(n + 1) \div 2]
      ELSE IF pick = "lo" THEN s[n \div 2] ELSE s[n \div 2 + 1]

\* the values of Series.mode(): the most frequent non-null values
Modes(cells) ==
  LET vals == Range(DropNa(cells))
  IN  {v \in vals : \A w \in vals : CountOf(w, cells) <= CountOf(v, cells)}

SetMin(S) == CHOOSE x \in S : \A y \in S : x <= y

SetMax(S) == CHOOSE x \in S : \A y \in S : x >= y

\* modes.iloc[0] if not modes.empty else "Missing": Series.mode() is sorted
ModeFill(cells) ==
  IF Modes(cells) = {} THEN StrMissing ELSE SetMin(Modes(cells))

\* v_counts.index[0] if len(v_counts) > 0 else "Missing": value_counts() sorts
\* by count only, so any of the most frequent values may come first
DaskModeFill(cells, pick) ==
  IF Modes(cells) = {} THEN StrMissing
  ELSE IF pick = "lo" THEN SetMin(Modes(cells)) ELSE SetMax(Modes(cells))

\* Series.fillna(fill_val)
FillNa(cells, fill_val) ==
  [i \in 1..Len(cells) |-> IF IsNull(cells[i]) THEN fill_val ELSE cells[i]]

\* Series.ffill(): each null takes the last non-null value above it, and a
\* null with no value above it stays null
RECURSIVE FFillFrom(_, _)
FFillFrom(cells, last) ==
  IF cells = <<>> THEN <<>>
  ELSE LET v == IF IsNull(Head(cells)) THEN last ELSE Head(cells)
       IN  <<v>> \o FFillFrom(Tail(cells), v)

FFill(cells) == FFillFrom(cells, NaN)

\* Series.isnull().astype(int) (pandas) or Series.isnull() (dask)
NullMask(cells) ==
  [i \in 1..Len(cells) |-> IF IsNull(cells[i]) THEN PyTrue ELSE PyFalse]

\* null_pct > 0.30, for null_pct = count / total_rows
Over30(count, total_rows) == 10 * count > 3 * total_rows

\* null_pct >= 0.05
AtLeast5(count, total_rows) == 20 * count >= total_rows

\* method selection of lines 45-62
ImputeMethod(dtype, dtype_role) ==
  IF is_numeric_dtype(dtype) /\ dtype_role # "id_col" THEN "median"
  ELSE IF dtype_role = "datetime_col" \/ is_datetime64_any_dtype(dtype) THEN "ffill"
  ELSE "mode"

\* fill_val of lines 41-62; None (NaN here) for ffill
FillValue(method, cells, is_dask, pick) ==
  IF method = "median"
  THEN IF is_dask THEN DaskQuantileHalf(cells, pick) ELSE Median(cells)
  ELSE IF method = "mode"
  THEN IF is_dask THEN DaskModeFill(cells, pick) ELSE ModeFill(cells)
  ELSE NaN

\* lines 75-84
Imputed(method, cells, fill_val) ==
  IF method = "ffill" THEN FFill(cells) ELSE FillNa(cells, fill_val)

\* the dtype of the filled series: pandas' fillna and ffill downcast an object
\* series left holding nothing but bools to bool; a dask series keeps the
\* dtype of its meta
FilledDtype(dtype, cells, is_dask) ==
  IF ~is_dask /\ is_object_dtype(dtype) /\ cells # <<>>
     /\ \A i \in 1..Len(cells) : IsBool(cells[i])
  THEN "bool" ELSE dtype

\* One iteration of the loop of lines 29-94 for the item (col, count) of
\* null_counts; st is [df, logs, modified, warnings, raised].
MissingColumnStep(st, col, count, total_rows, schema, pick) ==
  IF st.raised \/ count = 0 THEN st
  ELSE IF Over30(count, total_rows)
  THEN [st EXCEPT !.warnings = Append(@, [kind |-> "missing_over_30", column |-> col])]
  ELSE IF Cardinality(Positions(st.df, col)) # 1
  \* df[col] is a DataFrame for a repeated name: .dtype raises AttributeError
  THEN [st EXCEPT !.raised = TRUE]
  ELSE
    LET c0 == GetColumn(st.df, col)
        dtype_role == DictGet(schema, col, "feature_col")
        method == ImputeMethod(c0.dtype, dtype_role)
        fill_val == FillValue(method, c0.cells, st.df.is_dask, pick)
        indicated == AtLeast5(count, total_rows)
        ind_col == col \o WasMissingSuffix
        df1 == IF indicated
               THEN SetColumn(st.df, ind_col,
                              IF st.df.is_dask THEN "bool" ELSE "int64",
                              NullMask(c0.cells))
               ELSE st.df
        \* the indicator may have overwritten a column: read df[col] again
        c1 == GetColumn(df1, col)
        filled == Imputed(method, c1.cells, fill_val)
        df2 == SetColumn(df1, col, FilledDtype(c1.dtype, filled, st.df.is_dask), filled)
        logs1 == IF indicated
                 THEN Append(st.logs, [step_name |-> "MissingHandler",
                                       action |-> "add_indicator",
                                       column_name |-> col, severity |-> "info"])
                 ELSE st.logs
    IN  [st EXCEPT
           !.df = df2,
           !.modified = (IF indicated THEN Append(@, ind_col) ELSE @) \o <<col>>,
           !.logs = Append(logs1, [step_name |-> "MissingHandler",
                                   action |-> "impute",
                                   column_name |-> col,
                                   after_value |-> [method |-> method,
                                                    fill_val |-> fill_val],
                                   severity |-> "info"])]

RECURSIVE MissingLoop(_, _, _, _, _, _)
MissingLoop(st, names, counts, total_rows, schema, pick) ==
  IF names = <<>> THEN st
  ELSE MissingLoop(MissingColumnStep(st, Head(names), Head(counts),
                                     total_rows, schema, pick),
                   Tail(names), Tail(counts), total_rows, schema, pick)

\* MissingValueHandler.run(df, context); pick resolves the dask engine's
\* approximate median and unordered ties of value_counts
MissingValueHandler_run(df, context, pick) ==
  LET null_counts == [i \in 1..Len(df.columns) |-> NullCount(df.columns[i].cells)]
      total_rows == NRows(df)
      st0 == [df |-> df, logs |-> <<>>, modified |-> <<>>,
              warnings |-> context.warnings, raised |-> FALSE]
      st == MissingLoop(st0, ColumnNames(df), null_counts, total_rows,
                        context.schema, pick)
  IN  IF total_rows = 0 THEN StepResult(df, <<>>, <<>>, <<>>, context, FALSE)
      ELSE StepResult(st.df, st.logs, <<>>, st.modified,
                      [context EXCEPT !.warnings = st.warnings], st.raised)

(***************************************************************************)
(* ColumnNormalizer (steps/normalizer.py).                                 *)
(***************************************************************************)
LowerLetters == <<"a", "b", "c", "d", "e", "f", "g", "h", "i", "j", "k", "l", "m",
                  "n", "o", "p", "q", "r", "s", "t", "u", "v", "w", "x", "y", "z">>

UpperLetters == <<"A", "B", "C", "D", "E", "F", "G", "H", "I", "J", "K", "L", "M",
                  "N", "O", "P", "Q", "R", "S", "T", "U", "V", "W", "X", "Y", "Z">>

DigitChars == <<"0", "1", "2", "3", "4", "5", "6", "7", "8", "9">>

Whitespace == {" "}

\* str.lower(), one character
LowerChar(ch) ==
  IF ch \in Range(UpperLetters)
  THEN LowerLetters[CHOOSE i \in 1..Len(UpperLetters) : UpperLetters[i] = ch]
  ELSE ch

\* str.lower()
Lower(name) == [i \in 1..Len(name) |-> LowerChar(name[i])]

RECURSIVE LStrip(_, _)
LStrip(name, chars) ==
  IF name # <<>> /\ Head(name) \in chars THEN LStrip(Tail(name), chars) ELSE name

RECURSIVE RStrip(_, _)
RStrip(name, chars) ==
  IF name # <<>> /\ name[Len(name)] \in chars
  THEN RStrip(SubSeq(name, 1, Len(name) - 1), chars) ELSE name

\* str.strip(chars)
Strip(name, chars) == RStrip(LStrip(name, chars), chars)

\* re.sub(r'[^a-z0-9]', '_', name)
SubNonAlnum(name) ==
  [i \in 1..Len(name) |->
     IF name[i] \in Range(LowerLetters) \cup Range(DigitChars) THEN name[i] ELSE "_"]

\* re.sub(r'_+', '_', name)
RECURSIVE SquashUnderscores(_)
SquashUnderscores(name) ==
  IF Len(name) < 2 THEN name
  ELSE IF name[1] = "_" /\ name[2] = "_" THEN SquashUnderscores(Tail(name))
  ELSE <<Head(name)>> \o SquashUnderscores(Tail(name))

\* str(counter)
RECURSIVE IntToStr(_)
IntToStr(n) ==
  IF n < 10 THEN <<DigitChars[n + 1]>>
  ELSE IntToStr(n \div 10) \o <<DigitChars[(n % 10) + 1]>>

\* lines 21-34: the cleaned name, before de-duplication
CleanName(col) ==
  LET n1 == Strip(Lower(col), Whitespace)
      n2 == Strip(SquashUnderscores(SubNonAlnum(n1)), {"_"})
      n3 == IF n2 # <<>> /\ n2[1] \in Range(DigitChars)
            THEN <<"c", "o", "l", "_">> \o n2 ELSE n2
  IN  IF n3 = <<>> THEN <<"u", "n", "n", "a", "m", "e", "d">> ELSE n3

\* lines 37-41: the first counter, from 1, whose suffixed name is not seen
RECURSIVE FreeCounter(_, _, _)
FreeCounter(n_col, seen, counter) ==
  IF (n_col \o <<"_">> \o IntToStr(counter)) \in seen
  THEN FreeCounter(n_col, seen, counter + 1) ELSE counter

Deduplicated(n_col, seen) ==
  IF n_col \in seen
  THEN n_col \o <<"_">> \o IntToStr(FreeCounter(n_col, seen, 1)) ELSE n_col

\* the loop of lines 18-55 over old_cols; st is [new_cols, seen, logs, modified]
RECURSIVE NormalizeLoop(_, _)
NormalizeLoop(st, old_cols) ==
  IF old_cols = <<>> THEN st
  ELSE
    LET original == Head(old_cols)
        n_col == Deduplicated(CleanName(original), st.seen)
        renamed == original # n_col
    IN  NormalizeLoop(
          [new_cols |-> Append(st.new_cols, n_col),
           seen |-> st.seen \cup {n_col},
           modified |-> IF renamed THEN Append(st.modified, n_col) ELSE st.modified,
           logs |-> IF renamed
                    THEN Append(st.logs, [step_name |-> "ColumnNormalizer",
                                          action |-> "rename_column",
                                          column_name |-> original,
                                          after_value |-> [new_name |-> n_col],
                                          severity |-> "info"])
                    ELSE st.logs],
          Tail(old_cols))

\* rename_map = dict(zip(old_cols, new_cols)), read at key old: a key that
\* occurs several times keeps the value zipped with its last occurrence
RenameMapGet(old_cols, new_cols, old) ==
  IF \E i \in 1..Len(old_cols) : old_cols[i] = old
  THEN new_cols[SetMax({i \in 1..Len(old_cols) : old_cols[i] = old})]
  ELSE old

\* lines 62-66: the schema rebuilt item by item under the renamed keys
RECURSIVE RenamedSchema(_, _, _, _)
RenamedSchema(items, old_cols, new_cols, new_schema) ==
  IF items = <<>> THEN new_schema
  ELSE RenamedSchema(Tail(items), old_cols, new_cols,
                     DictSet(new_schema,
                             RenameMapGet(old_cols, new_cols, Head(items)[1]),
                             Head(items)[2]))

\* ColumnNormalizer.run(df, context)
ColumnNormalizer_run(df, context) ==
  LET old_cols == ColumnNames(df)
      st == NormalizeLoop([new_cols |-> <<>>, seen |-> {}, logs |-> <<>>,
                           modified |-> <<>>], old_cols)
      \* df.rename(columns=rename_map) renames every column by its own name
      renamed_df ==
        [df EXCEPT !.columns =
           [i \in 1..Len(df.columns) |->
              [df.columns[i] EXCEPT
                 !.name = RenameMapGet(old_cols, st.new_cols, old_cols[i])]]]
      new_context ==
        IF context.schema # <<>>
        THEN [context EXCEPT
                !.schema = RenamedSchema(context.schema, old_cols, st.new_cols, <<>>)]
        ELSE context
  IN  StepResult(renamed_df, st.logs, <<>>, st.modified, new_context, FALSE)

(***************************************************************************)
(* Domain profiles (core/domain_profiles.py).                              *)
(***************************************************************************)
PIPELINE_ROLE_ALIASES ==
  << <<"id_col", "id_col">>, <<"id", "id_col">>, <<"text", "text_col">>,
     <<"text_col", "text_col">>, <<"datetime", "datetime_col">>,
     <<"datetime_col", "datetime_col">>, <<"feature", "feature_col">>,
     <<"feature_col", "feature_col">>, <<"categorical", "feature_col">>,
     <<"target", "target_col">>, <<"target_col", "target_col">>,
     <<"constant", "constant_col">>, <<"constant_col", "constant_col">> >>

to_pipeline_role(role) == DictGet(PIPELINE_ROLE_ALIASES, role, "feature_col")

AiIncidentsKnownColumns ==
  << <<<<"i", "n", "c", "i", "d", "e", "n", "t", "_", "i", "d">>, "id_col">>,
     <<<<"t", "i", "t", "l", "e">>, "text">>,
     <<<<"d", "e", "s", "c", "r", "i", "p", "t", "i", "o", "n">>, "text">>,
     <<<<"d", "a", "t", "e">>, "datetime">>,
     <<<<"y", "e", "a", "r">>, "feature">>,
     <<<<"a", "l", "l", "e", "g", "e", "d", "d", "e", "p", "l", "o", "y", "e", "r", "o", "f", "a", "i", "s", "y", "s", "t", "e", "m">>, "categorical">>,
     <<<<"a", "l", "l", "e", "g", "e", "d", "d", "e", "v", "e", "l", "o", "p", "e", "r", "o", "f", "a", "i", "s", "y", "s", "t", "e", "m">>, "categorical">>,
     <<<<"a", "l", "l", "e", "g", "e", "d", "h", "a", "r", "m", "e", "d", "o", "r", "n", "e", "a", "r", "l", "y", "h", "a", "r", "m", "e", "d", "p", "a", "r", "t", "i", "e", "s">>, "categorical">>,
     <<<<"a", "l", "l", "e", "g", "e", "d", "h", "a", "r", "m", "e", "d", "o", "r", "n", "e", "a", "r", "l", "y", "h", "a", "r", "m", "e", "d", "d", "p", "a", "r", "t", "i", "e", "s">>, "categorical">>,
     <<<<"h", "a", "r", "m", "_", "t", "y", "p", "e">>, "categorical">>,
     <<<<"s", "e", "c", "t", "o", "r", "_", "o", "f", "_", "d", "e", "p", "l", "o", "y", "m", "e", "n", "t">>, "categorical">>,
     <<<<"t", "e", "c", "h", "n", "o", "l", "o", "g", "y", "_", "p", "u", "r", "v", "e", "y", "o", "r">>, "categorical">>,
     <<<<"a", "i", "_", "s", "y", "s", "t", "e", "m">>, "categorical">> >>

Domains == {"general", "healthcare", "finance", "education", "ecommerce",
            "ai_incidents", "other"}

\* get_domain_profile(domain)["known_columns"]: only ai_incidents declares any;
\* a domain outside the registry gets the general profile
known_columns(domain) ==
  IF domain = "ai_incidents" THEN AiIncidentsKnownColumns ELSE <<>>

(***************************************************************************)
(* SchemaAnalyzer (steps/schema_analyzer.py).                              *)
(***************************************************************************)
SchemaSampleRows == 10000

\* sub in name, for strings as character sequences
Contains(name, sub) ==
  \E i \in 0..(Len(name) - Len(sub)) : SubSeq(name, i + 1, i + Len(sub)) = sub

\* the name test of line 52
IdLikeName(col) ==
  \/ Contains(Lower(col), <<"i", "d">>)
  \/ Contains(Lower(col), <<"k", "e", "y">>)
  \/ Contains(Lower(col), <<"u", "u", "i", "d">>)

\* pd.to_datetime(x, errors='coerce') is not NaT, for the cell of an object column
ParsesAsDate(c) == c \in {StrDate1, StrDate2}

RECURSIVE SumSeq(_)
SumSeq(s) == IF s = <<>> THEN 0 ELSE Head(s) + SumSeq(Tail(s))

\* the role of lines 41-73 for a column that no domain profile knows
HeuristicRole(col, dtype, cells) ==
  LET nunique == NUnique(cells)
      values == DropNa(cells)
      valid == Len(SelectSeq(values, ParsesAsDate))
      len_sum == SumSeq([i \in 1..Len(values) |-> Len(StrOf(values[i]))])
  IN  IF nunique = 1 THEN "constant_col"
      ELSE IF 20 * nunique > 19 * Len(cells)
      THEN IF IdLikeName(col) \/ is_integer_dtype(dtype) THEN "id_col"
           ELSE "feature_col"
      ELSE IF is_object_dtype(dtype)
      THEN IF 5 * valid > 4 * Len(values) THEN "datetime_col"
           ELSE IF len_sum > 50 * Len(values) THEN "text_col"
           ELSE "feature_col"
      ELSE IF is_datetime64_any_dtype(dtype) THEN "datetime_col"
      ELSE "feature_col"

\* one iteration of the loop of lines 26-83; st is [schema, warnings, logs, raised]
SchemaColumnStep(st, df, sample_rows, i) ==
  LET col == df.columns[i].name
      known == known_columns(st.domain)
  IN  IF st.raised THEN st
      ELSE IF DictHas(known, col)
      THEN LET role == to_pipeline_role(DictGet(known, col, ""))
           IN  [st EXCEPT
                  !.schema = DictSet(@, col, role),
                  !.logs = Append(@, [step_name |-> "SchemaAnalyzer",
                                      action |-> "role_assignment",
                                      column_name |-> col,
                                      after_value |-> [role |-> role,
                                                       source |-> "domain_profile"],
                                      severity |-> "info"])]
      \* sample_df[col] is a DataFrame for a repeated name (.dtype raises), and
      \* nunique / len(sample_df) divides by zero on an empty sample
      ELSE IF Cardinality(Positions(df, col)) # 1 \/ sample_rows = 0
      THEN [st EXCEPT !.raised = TRUE]
      ELSE LET cells == Head_n(df.columns[i].cells, sample_rows)
               role == HeuristicRole(col, df.columns[i].dtype, cells)
           IN  [st EXCEPT
                  !.schema = DictSet(@, col, role),
                  !.warnings = IF role = "constant_col"
                               THEN Append(@, [kind |-> "constant", column |-> col])
                               ELSE @,
                  !.logs = Append(@, [step_name |-> "SchemaAnalyzer",
                                      action |-> "role_assignment",
                                      column_name |-> col,
                                      after_value |-> [role |-> role],
                                      severity |-> "info"])]

RECURSIVE SchemaLoop(_, _, _, _)
SchemaLoop(st, df, sample_rows, i) ==
  IF i > Len(df.columns) THEN st
  ELSE SchemaLoop(SchemaColumnStep(st, df, sample_rows, i), df, sample_rows, i + 1)

\* SchemaAnalyzer.run(df, context)
SchemaAnalyzer_run(df, context) ==
  LET sample_rows == IF df.is_dask THEN Min2(SchemaSampleRows, NRows(df)) ELSE NRows(df)
      st == SchemaLoop([schema |-> context.schema, warnings |-> context.warnings,
                        logs |-> <<>>, raised |-> FALSE, domain |-> context.domain],
                       df, sample_rows, 1)
  IN  StepResult(df, st.logs, <<>>, <<>>,
                 [context EXCEPT !.schema = st.schema, !.warnings = st.warnings],
                 st.raised)

(***************************************************************************)
(* Summarizer (eda/summarizer.py): the part of generate_json_summary that  *)
(* makes the quality score.  Fractions are kept exact, as [num, den].      *)
(***************************************************************************)
RECURSIVE Gcd(_, _)
Gcd(a, b) == IF b = 0 THEN a ELSE Gcd(b, a % b)

Frac(num, den) ==
  LET g == Gcd(IF num < 0 THEN -num ELSE num, den)
  IN  IF g = 0 THEN [num |-> 0, den |-> 1] ELSE [num |-> num \div g, den |-> den \div g]

FracAdd(x, y) == Frac(x.num * y.den + y.num * x.den, x.den * y.den)

FracLeq(x, y) == x.num * y.den <= y.num * x.den

FracMin(x, y) == IF FracLeq(x, y) THEN x ELSE y

FracMax(x, y) == IF FracLeq(x, y) THEN y ELSE x

\* round(x, 1) in tenths: the nearest tenth, a tie going to the even one
RoundTenths(x) ==
  LET n == 10 * x.num
      q == n \div x.den
      r == n % x.den
  IN  IF 2 * r < x.den THEN q
      ELSE IF 2 * r > x.den THEN q + 1
      ELSE IF q % 2 = 0 THEN q ELSE q + 1

\* 4 * Series.quantile(k / 4) of a sorted series: pandas interpolates linearly
\* between the two values around position (n - 1) * k / 4
Quantile4(sorted, k) ==
  LET h == (Len(sorted) - 1) * k
      lo == h \div 4
      r == h % 4
  IN  IF r = 0 THEN 4 * sorted[lo + 1]
      ELSE (4 - r) * sorted[lo + 1] + r * sorted[lo + 2]

\* lines 117-124: the count of the values beyond 3 IQR of the quartiles,
\* for a series of more than 10 values
IqrOutlierCount(series) ==
  LET sorted == SortCells(series)
      q1 == Quantile4(sorted, 1)
      q3 == Quantile4(sorted, 3)
      iqr == q3 - q1
  IN  Len(SelectSeq(series,
                    LAMBDA x : 4 * x < q1 - 3 * iqr \/ 4 * x > q3 + 3 * iqr))

\* the rows of the sample, in the table's order
SampleOf(cells, sample) == [k \in 1..Len(sample) |-> cells[sample[k]]]

\* a column profile whose outlier penalty has no cap
ColumnSummary_UncappedOutliers(col, sample, total_rows, schema) ==
  LET null_count == NullCount(col.cells)
      null_pct == IF total_rows > 0 THEN Frac(null_count, total_rows) ELSE Frac(0, 1)
      numeric == is_numeric_dtype(col.dtype) /\ ~is_bool_dtype(col.dtype)
      series == DropNa(SampleOf(col.cells, sample))
      scored == numeric /\ Len(series) > 10
      outlier_count == IF scored THEN IqrOutlierCount(series) ELSE 0
      outlier_pct == IF scored THEN Frac(outlier_count, Len(series)) ELSE Frac(0, 1)
  IN  [name |-> col.name, dtype |-> col.dtype,
       role |-> DictGet(schema, col.name, "feature_col"),
       null_count |-> null_count, null_pct |-> null_pct,
       outlier_count |-> outlier_count, outlier_pct |-> outlier_pct,
       penalty |-> FracAdd(Frac(100 * outlier_pct.num, outlier_pct.den),
                           Frac(50 * null_pct.num, null_pct.den))]

\* the loop body of lines 51-152 for one column: its profile and its penalty
ColumnSummary(col, sample, total_rows, schema) ==
  LET null_count == NullCount(col.cells)
      null_pct == IF total_rows > 0 THEN Frac(null_count, total_rows) ELSE Frac(0, 1)
      numeric == is_numeric_dtype(col.dtype) /\ ~is_bool_dtype(col.dtype)
      series == DropNa(SampleOf(col.cells, sample))
      scored == numeric /\ Len(series) > 10
      outlier_count == IF scored THEN IqrOutlierCount(series) ELSE 0
      outlier_pct == IF scored THEN Frac(outlier_count, Len(series)) ELSE Frac(0, 1)
      outlier_penalty == IF scored
                         THEN FracMin(Frac(10, 1),
                                      Frac(100 * outlier_pct.num, outlier_pct.den))
                         ELSE Frac(0, 1)
  IN  [name |-> col.name, dtype |-> col.dtype,
       role |-> DictGet(schema, col.name, "feature_col"),
       null_count |-> null_count, null_pct |-> null_pct,
       outlier_count |-> outlier_count, outlier_pct |-> outlier_pct,
       penalty |-> FracAdd(outlier_penalty, Frac(50 * null_pct.num, null_pct.den))]

RECURSIVE FracSum(_)
FracSum(s) == IF s = <<>> THEN Frac(0, 1) ELSE FracAdd(Head(s), FracSum(Tail(s)))

\* generate_json_summary(df, domain, schema); sample lists the rows of
\* sample_df (all of them for pandas, those df.sample drew for dask);
\* dataset_quality_score is in tenths
generate_json_summary(df, domain, schema, sample) ==
  LET columns == [i \in 1..Len(df.columns) |->
                    ColumnSummary(df.columns[i], sample, NRows(df), schema)]
      quality_penalty == FracSum([i \in 1..Len(columns) |-> columns[i].penalty])
      score == FracMax(Frac(0, 1),
                       Frac(100 * quality_penalty.den - quality_penalty.num,
                            quality_penalty.den))
  IN  [shape |-> [rows |-> NRows(df), cols |-> Len(df.columns)],
       domain |-> domain,
       columns |-> columns,
       quality_penalty |-> quality_penalty,
       dataset_quality_score |-> RoundTenths(score)]

\* the samples df.sample(frac=0.1, random_state=42) may draw from n rows:
\* round(n / 10) of them, whichever the generator picks
RECURSIVE SeqOfSet(_)
SeqOfSet(S) ==
  IF S = {} THEN <<>> ELSE <<SetMin(S)>> \o SeqOfSet(S \ {SetMin(S)})

DaskSamples(n) ==
  LET k == RoundTenths(Frac(n, 100))
  IN  {SeqOfSet(S) : S \in {T \in SUBSET (1..n) : Cardinality(T) = k}}

SummarySamples(df) ==
  IF df.is_dask THEN DaskSamples(NRows(df)) ELSE {[i \in 1..NRows(df) |-> i]}

(***************************************************************************)
(* TypeFixer (steps/type_fixer.py).                                        *)
(***************************************************************************)
TypeSampleRows == 1000

\* line 27 (pandas): str(x).strip() for a str cell, any other cell as it is;
\* line 25 (dask): astype(str).str.strip(), which also turns nulls and bools
\* into the strings "nan", "True" and "False"
StripCell(c, is_dask) ==
  IF c = StrPadded THEN StrBob
  ELSE IF ~is_dask THEN c
  ELSE IF IsNull(c) THEN StrNan
  ELSE IF c = PyTrue THEN StrTrue
  ELSE IF c = PyFalse THEN StrFalse
  ELSE c

\* the dtype Series.apply infers for its result: bool for bools only, float64
\* for nulls only, object otherwise
InferredDtype(cells) ==
  IF cells = <<>> THEN "object"
  ELSE IF \A i \in 1..Len(cells) : IsBool(cells[i]) THEN "bool"
  ELSE IF \A i \in 1..Len(cells) : IsNull(cells[i]) THEN "float64"
  ELSE "object"

\* pd.to_numeric(x, errors='coerce') for the cell of an object column
ToNumeric(c) ==
  IF c = StrSeven THEN Num(7)
  ELSE IF c = PyTrue THEN Num(1)
  ELSE IF c = PyFalse THEN Num(0)
  ELSE NaN

\* str(x).lower() for the cell of an object column
LowerStr(c) ==
  IF IsNull(c) THEN "nan"
  ELSE IF StrOf(c) = "True" THEN "true"
  ELSE IF StrOf(c) = "False" THEN "false"
  ELSE IF StrOf(c) = "Missing" THEN "missing"
  ELSE StrOf(c)

\* line 49, by value
BoolTrueKeys == {"yes", "true", "1", "1.0"}

BoolFalseKeys == {"no", "false", "0", "0.0"}

\* Series.map(bool_map), one value: NaN for a value that is no key
bool_map(s) ==
  IF s \in BoolTrueKeys THEN PyTrue
  ELSE IF s \in BoolFalseKeys THEN PyFalse
  ELSE NaN

\* line 51: the vocabulary of a boolean column
BoolVocabulary == BoolTrueKeys \cup BoolFalseKeys \cup {"nan", "null", "none", ""}

\* pd.to_datetime(x, errors='coerce') for the cell of an object column, as a
\* day number
ToDatetime(c) == IF c = StrDate1 THEN 1 ELSE IF c = StrDate2 THEN 2 ELSE NaN

TypeFixerLog(action, col) ==
  [step_name |-> "TypeFixer", action |-> action, column_name |-> col,
   severity |-> "info"]

\* The same iteration with the boolean test tried before the numeric one:
\* what TypeFixer must not do.
TypeFixColumnStep_BooleanFirst(st, col, schema, failing) ==
  IF st.raised THEN st
  \* df[col] is a DataFrame for a repeated name: .dtype raises AttributeError
  ELSE IF Cardinality(Positions(st.df, col)) # 1 THEN [st EXCEPT !.raised = TRUE]
  ELSE IF ~is_object_dtype(GetColumn(st.df, col).dtype) THEN st
  ELSE
    LET is_dask == st.df.is_dask
        c0 == GetColumn(st.df, col)
        stripped == [i \in 1..Len(c0.cells) |-> StripCell(c0.cells[i], is_dask)]
        df1 == SetColumn(st.df, col,
                         IF is_dask THEN "object" ELSE InferredDtype(stripped),
                         stripped)
        sample == IF is_dask
                  THEN Head_n(stripped, Min2(TypeSampleRows, NRows(st.df)))
                  ELSE Head_n(DropNa(stripped), TypeSampleRows)
        valid_num == Len(SelectSeq(sample, LAMBDA c : ~IsNull(ToNumeric(c))))
        as_numeric == [i \in 1..Len(stripped) |-> ToNumeric(stripped[i])]
        as_bool == [i \in 1..Len(stripped) |-> bool_map(LowerStr(stripped[i]))]
        as_datetime == [i \in 1..Len(stripped) |-> ToDatetime(stripped[i])]
    IN  IF sample = <<>> THEN [st EXCEPT !.df = df1]
        ELSE IF \A i \in 1..Len(sample) : LowerStr(sample[i]) \in BoolVocabulary
        THEN [st EXCEPT
                !.df = SetColumn(df1, col,
                                 IF NullCount(as_bool) = 0 THEN "bool" ELSE "object",
                                 as_bool),
                !.modified = Append(@, col),
                !.logs = Append(@, TypeFixerLog("coerce_boolean", col))]
        \* valid_num_pct > 0.95 and valid_num_pct < 1.0
        ELSE IF 100 * valid_num > 95 * Len(sample) /\ valid_num < Len(sample)
        THEN [st EXCEPT
                !.df = SetColumn(df1, col, "float64", as_numeric),
                !.modified = Append(@, col),
                !.logs = Append(@, TypeFixerLog("coerce_numeric", col))]
        ELSE IF DictGet(schema, col, "None") = "datetime_col"
        THEN IF ~is_dask /\ Positions(st.df, col) \subseteq failing
             \* lines 66-67: the exception is caught; dd.to_datetime is lazy
             THEN [st EXCEPT
                     !.df = df1,
                     !.warnings = Append(@, [kind |-> "datetime_failed",
                                             column |-> col])]
             ELSE [st EXCEPT
                     !.df = SetColumn(df1, col, "datetime64", as_datetime),
                     !.modified = Append(@, col)]
        ELSE [st EXCEPT !.df = df1]

\* one iteration of the loop of lines 19-69; st is [df, logs, warnings,
\* modified, raised]; failing holds the positions of the columns on which
\* pd.to_datetime raises although errors='coerce' is passed (values the
\* cells of the model do not tell apart, such as mixed time zones)
TypeFixColumnStep(st, col, schema, failing) ==
  IF st.raised THEN st
  \* df[col] is a DataFrame for a repeated name: .dtype raises AttributeError
  ELSE IF Cardinality(Positions(st.df, col)) # 1 THEN [st EXCEPT !.raised = TRUE]
  ELSE IF ~is_object_dtype(GetColumn(st.df, col).dtype) THEN st
  ELSE
    LET is_dask == st.df.is_dask
        c0 == GetColumn(st.df, col)
        stripped == [i \in 1..Len(c0.cells) |-> StripCell(c0.cells[i], is_dask)]
        df1 == SetColumn(st.df, col,
                         IF is_dask THEN "object" ELSE InferredDtype(stripped),
                         stripped)
        sample == IF is_dask
                  THEN Head_n(stripped, Min2(TypeSampleRows, NRows(st.df)))
                  ELSE Head_n(DropNa(stripped), TypeSampleRows)
        valid_num == Len(SelectSeq(sample, LAMBDA c : ~IsNull(ToNumeric(c))))
        as_numeric == [i \in 1..Len(stripped) |-> ToNumeric(stripped[i])]
        as_bool == [i \in 1..Len(stripped) |-> bool_map(LowerStr(stripped[i]))]
        as_datetime == [i \in 1..Len(stripped) |-> ToDatetime(stripped[i])]
    IN  IF sample = <<>> THEN [st EXCEPT !.df = df1]
        \* valid_num_pct > 0.95 and valid_num_pct < 1.0
        ELSE IF 100 * valid_num > 95 * Len(sample) /\ valid_num < Len(sample)
        THEN [st EXCEPT
                !.df = SetColumn(df1, col, "float64", as_numeric),
                !.modified = Append(@, col),
                !.logs = Append(@, TypeFixerLog("coerce_numeric", col))]
        ELSE IF \A i \in 1..Len(sample) : LowerStr(sample[i]) \in BoolVocabulary
        THEN [st EXCEPT
                !.df = SetColumn(df1, col,
                                 IF NullCount(as_bool) = 0 THEN "bool" ELSE "object",
                                 as_bool),
                !.modified = Append(@, col),
                !.logs = Append(@, TypeFixerLog("coerce_boolean", col))]
        ELSE IF DictGet(schema, col, "None") = "datetime_col"
        THEN IF ~is_dask /\ Positions(st.df, col) \subseteq failing
             \* lines 66-67: the exception is caught; dd.to_datetime is lazy
             THEN [st EXCEPT
                     !.df = df1,
                     !.warnings = Append(@, [kind |-> "datetime_failed",
                                             column |-> col])]
             ELSE [st EXCEPT
                     !.df = SetColumn(df1, col, "datetime64", as_datetime),
                     !.modified = Append(@, col)]
        ELSE [st EXCEPT !.df = df1]

RECURSIVE TypeFixLoop(_, _, _, _)
TypeFixLoop(st, cols_to_process, schema, failing) ==
  IF cols_to_process = <<>> THEN st
  ELSE TypeFixLoop(TypeFixColumnStep(st, Head(cols_to_process), schema, failing),
                   Tail(cols_to_process), schema, failing)

\* TypeFixer.run(df, context)
TypeFixer_run(df, context, failing) ==
  LET st == TypeFixLoop([df |-> df, logs |-> <<>>, warnings |-> <<>>,
                         modified |-> <<>>, raised |-> FALSE],
                        ColumnNames(df), context.schema, failing)
  IN  StepResult(st.df, st.logs, st.warnings, st.modified, context, st.raised)

(***************************************************************************)
(* DuplicateDetector (steps/duplicate_detector.py).                        *)
(***************************************************************************)
RowAt(df, r) == [i \in 1..Len(df.columns) |-> df.columns[i].cells[r]]

\* the rows df.duplicated() marks: those equal to a row above them
DuplicatedRows(df) ==
  {r \in 1..NRows(df) : \E q \in 1..(r - 1) : RowAt(df, q) = RowAt(df, r)}

\* the table without the rows of `gone`
WithoutRows(df, gone) ==
  LET kept == SelectSeq([r \in 1..NRows(df) |-> r], LAMBDA r : r \notin gone)
  IN  [df EXCEPT !.columns =
         [i \in 1..Len(df.columns) |->
            [df.columns[i] EXCEPT
               !.cells = [k \in 1..Len(kept) |-> df.columns[i].cells[kept[k]]]]]]

\* lines 16-34: what the step reports; nothing for a dask table
DuplicateReport(df) ==
  LET dup_count == Cardinality(DuplicatedRows(df))
  IN  IF df.is_dask \/ dup_count = 0
      THEN [logs |-> <<>>, warnings |-> <<>>]
      ELSE [logs |-> <<[step_name |-> "DuplicateDetector",
                        action |-> "flag_duplicates",
                        after_value |-> [dup_count |-> dup_count],
                        severity |-> "warning"]>>,
            warnings |-> <<[kind |-> "duplicates", dup_count |-> dup_count]>>]

\* a detector that drops the rows it counts
DuplicateDetector_run_Dropping(df, context) ==
  StepResult(WithoutRows(df, DuplicatedRows(df)), DuplicateReport(df).logs,
             DuplicateReport(df).warnings, <<>>, context, FALSE)

\* DuplicateDetector.run(df, context)
DuplicateDetector_run(df, context) ==
  StepResult(df, DuplicateReport(df).logs, DuplicateReport(df).warnings, <<>>,
             context, FALSE)

(***************************************************************************)
(* OutlierDetector (steps/outlier_detector.py).                            *)
(***************************************************************************)
OutlierSampleRows == 50000

MinOutlierValues == 10

NameTests ==
  [age |-> <<"a", "g", "e">>,
   pressure |-> <<"p", "r", "e", "s", "s", "u", "r", "e">>,
   weight |-> <<"w", "e", "i", "g", "h", "t">>,
   height |-> <<"h", "e", "i", "g", "h", "t">>,
   price |-> <<"p", "r", "i", "c", "e">>,
   volume |-> <<"v", "o", "l", "u", "m", "e">>,
   amount |-> <<"a", "m", "o", "u", "n", "t">>,
   grade |-> <<"g", "r", "a", "d", "e">>,
   score |-> <<"s", "c", "o", "r", "e">>]

\* any(k in col.lower() for k in keys)
NameHasAny(col, keys) == \E k \in keys : Contains(Lower(col), NameTests[k])

AnyBelow(series, v) == \E i \in 1..Len(series) : series[i] < Num(v)

AnyAbove(series, v) == \E i \in 1..Len(series) : series[i] > Num(v)

\* lines 45-58: the warnings of the domain rules, in the order they are added
DomainWarnings(domain, col, series) ==
  IF domain = "healthcare"
  THEN (IF NameHasAny(col, {"age"}) /\ AnyAbove(series, 120)
        THEN <<[kind |-> "healthcare_age", column |-> col]>> ELSE <<>>)
       \o
       (IF AnyBelow(series, 0) /\ NameHasAny(col, {"pressure", "weight", "height"})
        THEN <<[kind |-> "healthcare_negative", column |-> col]>> ELSE <<>>)
  ELSE IF domain = "finance"
  THEN IF AnyBelow(series, 0) /\ NameHasAny(col, {"price", "volume", "amount"})
       THEN <<[kind |-> "finance_negative", column |-> col]>> ELSE <<>>
  ELSE IF domain = "education"
  THEN IF NameHasAny(col, {"grade", "score"})
          /\ (AnyAbove(series, 100) \/ AnyBelow(series, 0))
       THEN <<[kind |-> "education_range", column |-> col]>> ELSE <<>>
  ELSE <<>>

\* lines 74-75: the values with abs(zscore) > 3.5, for the population mean
\* and standard deviation; with S the sum and Q the sum of squares of the n
\* values, |x - S/n| > 3.5 sd is 4 (n x - S)^2 > 49 (n Q - S^2), and no value
\* passes when the deviation is 0 (the z-scores are then NaN)
ZScoreOutlierCount(series) ==
  LET n == Len(series)
      S == SumSeq(series)
      Q == SumSeq([i \in 1..n |-> series[i] * series[i]])
  IN  Len(SelectSeq(series,
                    LAMBDA x : 4 * (n * x - S) * (n * x - S) > 49 * (n * Q - S * S)))

\* lines 61-83: the number of outliers by the method chosen; normal tells
\* whether the normality test gave p > 0.05
OutlierCount(series, normal) ==
  IF normal THEN ZScoreOutlierCount(series) ELSE IqrOutlierCount(series)

\* lines 94-104: the handler of an exception raised for column col
OutlierSkipped_Silent(st, col, reason) == st

OutlierSkipped(st, col, reason) ==
  [logs |-> Append(st.logs, [step_name |-> "OutlierDetector",
                             action |-> "skip_column",
                             column_name |-> col,
                             after_value |-> [reason |-> reason],
                             severity |-> "warning"]),
   warnings |-> Append(st.warnings, [kind |-> "outlier_skipped",
                                     column |-> col])]

\* lines 28-93 with the domain rules applied only to a flagged column
OutlierTryBody_WarnWhenFlagged(st, df, sample, i, context, normal) ==
  LET col == df.columns[i].name
      dtype == df.columns[i].dtype
      series == DropNa(SampleOf(df.columns[i].cells, sample))
      n == Len(series)
      outlier_count == OutlierCount(series, i \in normal)
  IN  IF ~is_numeric_dtype(dtype) \/ is_bool_dtype(dtype) THEN st
      ELSE IF DictGet(context.schema, col, "None") \in {"id_col", "datetime_col"}
      THEN st
      ELSE IF n < MinOutlierValues THEN st
      ELSE IF outlier_count = 0 THEN st
      ELSE [logs |-> Append(st.logs,
                            [step_name |-> "OutlierDetector",
                             action |-> "flag_outliers",
                             column_name |-> col,
                             after_value |->
                               [count |-> outlier_count,
                                method |-> IF i \in normal
                                           THEN "Z-Score" ELSE "IQR"],
                             severity |-> IF 20 * outlier_count > n
                                          THEN "warning" ELSE "info"]),
            warnings |-> st.warnings \o DomainWarnings(context.domain, col, series)]

\* lines 28-93: the body of the try for column i of sample_df, when nothing
\* raises; st is [logs, warnings]
OutlierTryBody(st, df, sample, i, context, normal) ==
  LET col == df.columns[i].name
      dtype == df.columns[i].dtype
      series == DropNa(SampleOf(df.columns[i].cells, sample))
      n == Len(series)
      outlier_count == OutlierCount(series, i \in normal)
  IN  IF ~is_numeric_dtype(dtype) \/ is_bool_dtype(dtype) THEN st
      ELSE IF DictGet(context.schema, col, "None") \in {"id_col", "datetime_col"}
      THEN st
      ELSE IF n < MinOutlierValues THEN st
      ELSE [logs |-> IF outlier_count > 0
                     THEN Append(st.logs,
                                 [step_name |-> "OutlierDetector",
                                  action |-> "flag_outliers",
                                  column_name |-> col,
                                  after_value |->
                                    [count |-> outlier_count,
                                     method |-> IF i \in normal
                                                THEN "Z-Score" ELSE "IQR"],
                                  severity |-> IF 20 * outlier_count > n
                                               THEN "warning" ELSE "info"])
                     ELSE st.logs,
            warnings |-> st.warnings \o DomainWarnings(context.domain, col, series)]

\* one iteration of the loop of lines 26-104 for column i of sample_df
OutlierColumnStep(st, df, sample, i, context, normal) ==
  \* sample_df[col] is a DataFrame for a repeated name: .dtype raises
  \* AttributeError (line 28), which the handler of lines 94-104 reports
  IF Cardinality(Positions(df, df.columns[i].name)) # 1
  THEN OutlierSkipped(st, df.columns[i].name, "AttributeError")
  ELSE OutlierTryBody(st, df, sample, i, context, normal)

RECURSIVE OutlierLoop(_, _, _, _, _, _)
OutlierLoop(st, df, sample, i, context, normal) ==
  IF i > Len(df.columns) THEN st
  ELSE OutlierLoop(OutlierColumnStep(st, df, sample, i, context, normal),
                   df, sample, i + 1, context, normal)

\* lines 14-104: the logs and warnings of the step; the sample of an empty
\* dask table is a DataFrame without columns
OutlierReport(df, context, sample, normal) ==
  IF df.is_dask /\ NRows(df) = 0 THEN [logs |-> <<>>, warnings |-> <<>>]
  ELSE OutlierLoop([logs |-> <<>>, warnings |-> <<>>], df, sample, 1, context,
                   normal)

\* the table with the values of its flagged columns capped at their median
CappedAtMedian(df, logs) ==
  [df EXCEPT !.columns =
     [i \in 1..Len(df.columns) |->
        IF HasLog(logs, "flag_outliers", df.columns[i].name)
        THEN [df.columns[i] EXCEPT
                !.cells = [r \in 1..Len(df.columns[i].cells) |->
                             IF IsNull(df.columns[i].cells[r])
                             THEN NaN
                             ELSE Min2(df.columns[i].cells[r],
                                       Median(df.columns[i].cells))]]
        ELSE df.columns[i]]]

\* a detector that caps the outliers it flags
OutlierDetector_run_Capping(df, context, sample, normal) ==
  LET st == OutlierReport(df, context, sample, normal)
  IN  StepResult(CappedAtMedian(df, st.logs), st.logs, st.warnings, <<>>,
                 context, FALSE)

\* OutlierDetector.run(df, context); sample lists the rows of sample_df, and
\* normal the positions of the columns whose normality test gives p > 0.05
OutlierDetector_run(df, context, sample, normal) ==
  LET st == OutlierReport(df, context, sample, normal)
  IN  StepResult(df, st.logs, st.warnings, <<>>, context, FALSE)

\* the samples of line 22: every row (in some order) while the table has no
\* more than OutlierSampleRows rows
OutlierSamples(df) ==
  IF df.is_dask /\ NRows(df) > OutlierSampleRows
  THEN {SeqOfSet(S) : S \in {T \in SUBSET (1..NRows(df)) :
                               Cardinality(T) = OutlierSampleRows}}
  ELSE {[i \in 1..NRows(df) |-> i]}

(***************************************************************************)
(* EncoderSuggester (steps/encoder_suggester.py).                          *)
(***************************************************************************)
EncoderSampleRows == 10000

\* lines 27-40: the suggestion for a column, "None" when there is none
Suggestion(role, dtype, nunique) ==
  IF role = "datetime_col"
  THEN "feature_extraction (year, month, day, weekday, is_weekend)"
  ELSE IF role = "text_col" THEN "TF-IDF or Embeddings"
  ELSE IF is_object_dtype(dtype)
  THEN IF nunique <= 10 THEN "One-Hot Encoding"
       ELSE IF nunique <= 50 THEN "Label/Ordinal Encoding"
       ELSE "Target/Frequency Encoding"
  ELSE "None"

\* one iteration of the loop of lines 20-50; st is [logs, raised]
EncoderColumnStep(st, df, sample_rows, i, schema) ==
  LET col == df.columns[i].name
      role == DictGet(schema, col, "None")
      suggestion == Suggestion(role, df.columns[i].dtype,
                               NUnique(Head_n(df.columns[i].cells, sample_rows)))
  IN  IF st.raised THEN st
      \* sample_df[col] is a DataFrame for a repeated name: .dtype raises
      ELSE IF Cardinality(Positions(df, col)) # 1 THEN [st EXCEPT !.raised = TRUE]
      ELSE IF role \in {"id_col", "constant_col", "target_col"} THEN st
      ELSE IF suggestion = "None" THEN st
      ELSE [st EXCEPT
              !.logs = Append(@, [step_name |-> "EncoderSuggester",
                                  action |-> "suggest_encoder",
                                  column_name |-> col,
                                  after_value |-> [suggestion |-> suggestion],
                                  severity |-> "info"])]

RECURSIVE EncoderLoop(_, _, _, _, _)
EncoderLoop(st, df, sample_rows, i, schema) ==
  IF i > Len(df.columns) THEN st
  ELSE EncoderLoop(EncoderColumnStep(st, df, sample_rows, i, schema),
                   df, sample_rows, i + 1, schema)

\* EncoderSuggester.run(df, context)
EncoderSuggester_run(df, context) ==
  LET sample_rows == IF df.is_dask THEN Min2(EncoderSampleRows, NRows(df))
                     ELSE NRows(df)
      st == EncoderLoop([logs |-> <<>>, raised |-> FALSE], df, sample_rows, 1,
                        context.schema)
  IN  StepResult(df, st.logs, <<>>, <<>>, context, st.raised)

(***************************************************************************)
(* PreprocessingOrchestrator (pipeline/preprocessor.py): self.steps.       *)
(***************************************************************************)
PipelineSteps ==
  <<"ColumnNormalizer", "SchemaAnalyzer", "TypeFixer", "MissingValueHandler",
    "DuplicateDetector", "OutlierDetector", "EncoderSuggester">>

(***************************************************************************)
(* State.                                                                  *)
(***************************************************************************)
VARIABLES
  caller,    \* who runs the steps: "test" or "process_dataset"
  pc,        \* the operation about to run, or "done" / "failed"
  plan,      \* the operations that follow it, in order
  df0,       \* the table run_pipeline was called with
  ran,       \* the step that ran last ("" before any)
  df,        \* the table currently held
  df_in,     \* the table as it was handed to the step that ran last
  context,   \* the PipelineContext
  result,    \* the StepResult of the step that ran last
  all_logs,  \* run_pipeline's all_logs
  summaries, \* the results of generate_json_summary, oldest first
  file,      \* the uploaded file and what reading it does
  load_result, \* what DatasetLoader.load returned or raised
  db,        \* the rows of the database process_dataset writes
  task,      \* the celery request of process_dataset
  llm,       \* the LLMClient and its provider
  notebook,  \* the notebook NotebookRunner.run_all runs and its results
  agents     \* the agents AgentOrchestrator.run_all_agents runs and its results

\* the state of the service around the pipeline
service == <<file, load_result, db, task, llm, notebook, agents>>

vars == <<caller, pc, plan, df0, ran, df, df_in, context, result, all_logs, summaries,
          service>>

\* no file, no job and no LLM call: the steps are called directly
NoFile == [format |-> "none"]
NoLoad == [raised |-> "not called"]
NoDb == [status |-> "none"]
NoTask == [state |-> "none"]
NoLlm == [state |-> "none"]
NoNotebook == [state |-> "none"]
NoAgents == [state |-> "none"]

ServiceIdle ==
  /\ file = NoFile
  /\ load_result = NoLoad
  /\ db = NoDb
  /\ task = NoTask
  /\ llm = NoLlm
  /\ notebook = NoNotebook
  /\ agents = NoAgents

NoResult == [logs |-> <<>>, warnings |-> <<>>, modified_columns |-> <<>>,
             raised |-> FALSE]

ResultOf(r) == [logs |-> r.logs, warnings |-> r.warnings,
                modified_columns |-> r.modified_columns, raised |-> r.raised]

Picks == {"lo", "hi"}

\* A loop body that swallows the exception of a step and goes on with the
\* next one: what run_pipeline must not do.
StepTaken_Continuing(name, r) ==
  /\ ran' = name
  /\ df_in' = df
  /\ df' = r.df
  /\ result' = ResultOf(r)
  /\ context' = IF caller = "process_dataset" /\ ~r.raised
                THEN [r.context EXCEPT !.warnings = @ \o r.warnings]
                ELSE r.context
  /\ all_logs' = IF r.raised THEN all_logs ELSE all_logs \o r.logs
  /\ pc' = IF plan = <<>> THEN "done" ELSE Head(plan)
  /\ plan' = IF plan = <<>> THEN <<>> ELSE Tail(plan)
  /\ UNCHANGED <<service, caller, df0, summaries>>

\* The effect of a step that returned r (or raised), as its caller sees it:
\* lines 45-56 of run_pipeline, which also extends the context's warnings
\* with those of the result, or the plain call of a test.
StepTaken(name, r) ==
  /\ ran' = name
  /\ df_in' = df
  /\ df' = r.df
  /\ result' = ResultOf(r)
  /\ context' = IF caller = "process_dataset" /\ ~r.raised
                THEN [r.context EXCEPT !.warnings = @ \o r.warnings]
                ELSE r.context
  /\ all_logs' = IF r.raised THEN all_logs ELSE all_logs \o r.logs
  /\ pc' = IF r.raised THEN "failed" ELSE IF plan = <<>> THEN "done" ELSE Head(plan)
  /\ plan' = IF r.raised \/ plan = <<>> THEN <<>> ELSE Tail(plan)
  /\ UNCHANGED <<service, caller, df0, summaries>>

(***************************************************************************)
(* Input tables.                                                           *)
(***************************************************************************)
NameA == <<"a">>
NameB == <<"b">>
NameAInd == NameA \o WasMissingSuffix

\* The kinds of input column: a dtype and the values of its rows, which
\* repeat the cycle (a cycle of <<>> stands for the distinct values 1, 2, ...).
KindIntSeq == [dtype |-> "int64", cycle |-> <<>>]
KindFloatCycle == [dtype |-> "float64", cycle |-> <<Num(25), Num(30), Num(22)>>]
KindFloatConst == [dtype |-> "float64", cycle |-> <<Num(25)>>]
KindDateSeq == [dtype |-> "datetime64", cycle |-> <<>>]
KindDateCycle == [dtype |-> "datetime64", cycle |-> <<1, 2>>]
KindObjNames == [dtype |-> "object", cycle |-> <<StrBob, StrAlice>>]
KindObjDates == [dtype |-> "object", cycle |-> <<StrDate1, StrDate2>>]
KindObjDates80 ==
  [dtype |-> "object", cycle |-> <<StrDate1, StrDate2, StrDate1, StrDate2, StrAlice>>]
KindObjText == [dtype |-> "object", cycle |-> <<StrLongA, StrLongT>>]
KindObjYesNo == [dtype |-> "object", cycle |-> <<StrYes, StrNo>>]
KindObjPadded == [dtype |-> "object", cycle |-> <<StrPadded, StrAlice>>]
KindBool == [dtype |-> "bool", cycle |-> <<PyTrue, PyFalse>>]

\* the value of row i of an input column without nulls
InputValue(kind, i) ==
  IF kind.cycle = <<>>
  THEN IF is_numeric_dtype(kind.dtype) THEN Num(i) ELSE i
  ELSE kind.cycle[((i - 1) % Len(kind.cycle)) + 1]

\* nulls turn an int64 or a bool column into float64 or object, as read_csv does
InputDtype(kind, nulls) ==
  IF nulls = {} THEN kind.dtype
  ELSE IF kind.dtype = "int64" THEN "float64"
  ELSE IF kind.dtype = "bool" THEN "object"
  ELSE kind.dtype

InputColumn(name, kind, n, nulls) ==
  Column(name, InputDtype(kind, nulls),
         [i \in 1..n |-> IF i \in nulls THEN NaN ELSE InputValue(kind, i)])

NullSets(n) == SUBSET (1..Min2(NullWindow, n))

\* the kinds of column handed to the missing value handler
MissingKinds == {KindFloatCycle, KindObjNames, KindDateSeq}

SchemaRoles == {"none", "id_col", "datetime_col"}

SchemaOf(names, roles) ==
  LET idx == SelectSeq([i \in 1..Len(names) |-> i], LAMBDA i : roles[i] # "none")
  IN  [k \in 1..Len(idx) |-> <<names[idx[k]], roles[idx[k]]>>]

\* row counts on both sides of the 30% and 5% thresholds for one or two nulls
RowCounts == (1..7) \cup (19..MaxRows)

MissingInputNames == {<<NameA>>, <<NameA, NameB>>, <<NameA, NameAInd>>, <<NameAInd, NameA>>}

(***************************************************************************)
(* SpecMissing: MissingValueHandler.run on its own, as the unit tests call *)
(* it, on a table and a schema drawn from the input sets.                  *)
(***************************************************************************)
InitMissing ==
  \E names \in MissingInputNames, n \in RowCounts, is_dask \in BOOLEAN :
  \E kinds \in [1..Len(names) -> MissingKinds],
     nulls \in [1..Len(names) -> NullSets(n)],
     role1 \in SchemaRoles :
    /\ ServiceIdle
    /\ caller = "test"
    /\ pc = "MissingValueHandler"
    /\ plan = <<>>
    /\ ran = ""
    /\ df = [is_dask |-> is_dask,
             columns |-> [i \in 1..Len(names) |->
                            InputColumn(names[i], kinds[i], n, nulls[i])]]
    /\ df_in = df
    /\ df0 = df
    /\ context = [PipelineContext("general", is_dask) EXCEPT
                    !.schema = SchemaOf(names, [i \in 1..Len(names) |->
                                                  IF i = 1 THEN role1 ELSE "none"])]
    /\ result = NoResult
    /\ all_logs = <<>>
    /\ summaries = <<>>

RunMissingValueHandler ==
  /\ pc = "MissingValueHandler"
  /\ \E pick \in Picks :
       StepTaken("MissingValueHandler", MissingValueHandler_run(df, context, pick))

NextMissing == RunMissingValueHandler

SpecMissing == InitMissing /\ [][NextMissing]_vars

(***************************************************************************)
(* Claims about MissingValueHandler (C1, C2, C3).                          *)
(***************************************************************************)
HandlerRan == ran = "MissingValueHandler" /\ ~result.raised

InNulls(i) == NullCount(df_in.columns[i].cells)

\* 0 < p <= 0.30 for column i of the table handed to the handler
Imputable(i) == InNulls(i) > 0 /\ ~Over30(InNulls(i), NRows(df_in))

OutColumn(i) == GetColumn(df, df_in.columns[i].name)

\* C1: every column with 0 < p <= 0.30 before MissingValueHandler.run has no
\* null after it, whatever the imputation method and wherever the nulls are.
C1_NoNullsAfterImputation ==
  HandlerRan =>
    \A i \in 1..Len(df_in.columns) :
      Imputable(i) => NullCount(OutColumn(i).cells) = 0

\* C2: a column with p > 0.30 keeps its null count, gets no indicator column
\* and no impute log entry, and is named by a warning of the context.
C2_Over30LeftAlone ==
  HandlerRan =>
    \A i \in 1..Len(df_in.columns) :
      LET col == df_in.columns[i].name
      IN  Over30(InNulls(i), NRows(df_in)) =>
            /\ NullCount(OutColumn(i).cells) = InNulls(i)
            /\ ~HasLog(result.logs, "impute", col)
            /\ ~HasLog(result.logs, "add_indicator", col)
            /\ (col \o WasMissingSuffix) \notin Range(result.modified_columns)
            /\ HasWarning(context.warnings, "missing_over_30", col)

\* C3: the indicator column {col}_was_missing is added iff col is imputed and
\* its null fraction is >= 0.05, and it holds the null mask col had before
\* the imputation; a column with p < 0.05 gets no indicator.
C3_IndicatorIffAtLeast5 ==
  HandlerRan =>
    \A i \in 1..Len(df_in.columns) :
      LET col == df_in.columns[i].name
          ind_col == col \o WasMissingSuffix
          indicated == HasLog(result.logs, "add_indicator", col)
      IN  /\ indicated <=> (HasLog(result.logs, "impute", col)
                             /\ AtLeast5(InNulls(i), NRows(df_in)))
          /\ indicated => /\ HasColumn(df, ind_col)
                          /\ GetColumn(df, ind_col).cells
                               = NullMask(df_in.columns[i].cells)
          /\ ~indicated /\ ~HasColumn(df_in, ind_col) => ~HasColumn(df, ind_col)

(***************************************************************************)
(* SpecNormalizer: ColumnNormalizer.run on its own, on tables whose column *)
(* names are drawn from NormalizerNames, repeats included.                 *)
(***************************************************************************)
NormalizerNames ==
  { <<>>, <<"a">>, <<"A">>, <<"a", "_", "1">>, <<"a", " ", "1">>, <<" ", "a", "-">>,
    <<"1", "a">>, <<"_">>, <<"a", "_", "1", "_", "1">> }

NamesUpTo(n) == UNION {[1..k -> NormalizerNames] : k \in 1..n}

TableOfNames(names, is_dask) ==
  [is_dask |-> is_dask,
   columns |-> [i \in 1..Len(names) |-> InputColumn(names[i], KindIntSeq, 1, {})]]

InitNormalizer ==
  \E names \in NamesUpTo(MaxNormCols), with_schema \in BOOLEAN :
    /\ ServiceIdle
    /\ caller = "test"
    /\ pc = "ColumnNormalizer"
    /\ plan = <<"ColumnNormalizer">>
    /\ ran = ""
    /\ df = TableOfNames(names, FALSE)
    /\ df_in = df
    /\ df0 = df
    /\ context = [PipelineContext("general", FALSE) EXCEPT
                    !.schema = IF with_schema
                               THEN <<<<names[1], "id_col">>>> ELSE <<>>]
    /\ result = NoResult
    /\ all_logs = <<>>
    /\ summaries = <<>>

RunColumnNormalizer ==
  /\ pc = "ColumnNormalizer"
  /\ StepTaken("ColumnNormalizer", ColumnNormalizer_run(df, context))

NextNormalizer == RunColumnNormalizer

SpecNormalizer == InitNormalizer /\ [][NextNormalizer]_vars

(***************************************************************************)
(* Claims about ColumnNormalizer (C4).                                     *)
(***************************************************************************)
NormalizerRan == ran = "ColumnNormalizer"

WellFormedName(name) ==
  /\ name # <<>>
  /\ \A i \in 1..Len(name) :
       name[i] \in Range(LowerLetters) \cup Range(DigitChars) \cup {"_"}
  /\ name[1] \notin Range(DigitChars)

PairwiseDistinct(names) ==
  \A i, j \in 1..Len(names) : i # j => names[i] # names[j]

\* C4: the column names of the table ColumnNormalizer.run returns are
\* pairwise distinct, non-empty, lowercase, made of [a-z0-9_] only and never
\* start with a digit, for any input names (repeats and collisions included).
C4_NormalizedNamesUniqueAndClean ==
  NormalizerRan =>
    /\ PairwiseDistinct(ColumnNames(df))
    /\ \A i \in 1..Len(df.columns) : WellFormedName(df.columns[i].name)

(***************************************************************************)
(* SpecSchema: SchemaAnalyzer.run on its own, as the unit tests call it.   *)
(***************************************************************************)
NameId == <<"i", "d">>
NameAge == <<"a", "g", "e">>
NameDateJoined == <<"d", "a", "t", "e", "_", "j", "o", "i", "n", "e", "d">>
NameDate == <<"d", "a", "t", "e">>

SchemaNames == {NameId, NameAge, NameDateJoined, NameDate}

SchemaKinds ==
  {KindIntSeq, KindFloatCycle, KindFloatConst, KindDateSeq, KindDateCycle,
   KindObjNames, KindObjDates, KindObjDates80, KindObjText, KindObjYesNo}

\* a second column, when the table has one
SecondColumns == {<<NameAge, KindFloatCycle>>, <<NameId, KindIntSeq>>}

\* 25 in every row of the dask sample, 30 in the row after it
KindFloatLateChange ==
  [dtype |-> "float64",
   cycle |-> [i \in 1..(SchemaSampleRows + 1) |->
                IF i > SchemaSampleRows THEN Num(30) ELSE Num(25)]]

\* the tables longer than the dask sample: one column of KindFloatLateChange
LongTable(name, kind, n, nulls, second, domain) ==
  /\ kind = KindFloatLateChange
  /\ name = NameAge
  /\ nulls = {}
  /\ second = {}
  /\ domain = "general"

InitSchema ==
  \E name \in SchemaNames, kind \in SchemaKinds \cup {KindFloatLateChange},
     n \in (0..MaxSchemaRows) \cup {SchemaSampleRows + 1},
     is_dask \in BOOLEAN, domain \in {"general", "ai_incidents"} :
  \E nulls \in NullSets(n), second \in SUBSET SecondColumns :
    /\ (n > SchemaSampleRows) = (kind = KindFloatLateChange)
    /\ n > SchemaSampleRows => LongTable(name, kind, n, nulls, second, domain)
    /\ Cardinality(second) <= 1
    /\ ServiceIdle
    /\ caller = "test"
    /\ pc = "SchemaAnalyzer"
    /\ plan = <<>>
    /\ ran = ""
    /\ df = [is_dask |-> is_dask,
             columns |-> <<InputColumn(name, kind, n, nulls)>> \o
                         (IF second = {} THEN <<>>
                          ELSE LET c == CHOOSE c \in second : TRUE
                               IN  <<InputColumn(c[1], c[2], n, {})>>)]
    /\ df_in = df
    /\ df0 = df
    /\ context = PipelineContext(domain, is_dask)
    /\ result = NoResult
    /\ all_logs = <<>>
    /\ summaries = <<>>

RunSchemaAnalyzer ==
  /\ pc = "SchemaAnalyzer"
  /\ StepTaken("SchemaAnalyzer", SchemaAnalyzer_run(df, context))

NextSchema == RunSchemaAnalyzer

SpecSchema == InitSchema /\ [][NextSchema]_vars

(***************************************************************************)
(* Claims about SchemaAnalyzer (C10).                                      *)
(***************************************************************************)
SchemaRan == ran = "SchemaAnalyzer" /\ ~result.raised

Roles == {"id_col", "datetime_col", "text_col", "feature_col", "target_col",
          "constant_col"}

\* the role the decision order of the specification gives a column: the
\* first rule that matches, rules 4 and 5 being tried whenever rule 3 fails
SpecifiedRole(domain, col, dtype, cells) ==
  LET values == DropNa(cells)
      valid == Len(SelectSeq(values, ParsesAsDate))
      len_sum == SumSeq([i \in 1..Len(values) |-> Len(StrOf(values[i]))])
  IN  IF DictHas(known_columns(domain), col)
      THEN to_pipeline_role(DictGet(known_columns(domain), col, ""))
      ELSE IF NUnique(cells) = 1 THEN "constant_col"
      ELSE IF 20 * NUnique(cells) > 19 * Len(cells)
              /\ (IdLikeName(col) \/ is_integer_dtype(dtype))
      THEN "id_col"
      ELSE IF is_object_dtype(dtype) /\ values # <<>> /\ 5 * valid >= 4 * Len(values)
      THEN "datetime_col"
      ELSE IF is_object_dtype(dtype) /\ len_sum > 50 * Len(values) THEN "text_col"
      ELSE IF is_datetime64_any_dtype(dtype) THEN "datetime_col"
      ELSE "feature_col"

\* C10: SchemaAnalyzer gives every column exactly one role, the one of the
\* first matching rule of the order (1) domain profile, (2) constant,
\* (3) id, (4) string: datetime or text, (5) native datetime, (6) feature.
C10_RoleByFirstMatchingRule ==
  SchemaRan =>
    /\ Len(context.schema) = Len(df.columns)
    /\ \A i \in 1..Len(df.columns) :
         LET c == df.columns[i]
         IN  /\ DictHas(context.schema, c.name)
             /\ DictGet(context.schema, c.name, "") \in Roles
             /\ DictGet(context.schema, c.name, "")
                  = SpecifiedRole(context.domain, c.name, c.dtype, c.cells)

\* the same table content held by the other engine
OtherEngine(table) == [table EXCEPT !.is_dask = ~@]

\* C11: for the same table content SchemaAnalyzer produces the same role map
\* on the eager and on the partitioned engine, tables longer than the
\* partitioned engine's sample of 10,000 rows included.
C11_SameRolesOnBothEngines ==
  SchemaRan =>
    LET other == SchemaAnalyzer_run(OtherEngine(df_in),
                                    [context EXCEPT !.schema = <<>>,
                                                    !.warnings = <<>>])
    IN  ~other.raised /\ other.context.schema = context.schema

(***************************************************************************)
(* SpecSummary: generate_json_summary on a table, then on the same table   *)
(* with one more null or one more outlier injected.                        *)
(***************************************************************************)
OutlierValue == Num(150)

NullColumnNames == << <<"n", "1">>, <<"n", "2">>, <<"n", "3">>, <<"n", "4">> >>

SummaryRows == (0..1) \cup (10..MaxSummaryRows)

\* the column age: the cycle 25, 30, 22, its last `outliers` rows at 150
AgeColumn(n, outliers, nulls) ==
  Column(NameAge, "float64",
         [i \in 1..n |-> IF i \in nulls THEN NaN
                         ELSE IF i > n - outliers THEN OutlierValue
                         ELSE InputValue(KindFloatCycle, i)])

AllNullColumn(name, n) == Column(name, "object", [i \in 1..n |-> NaN])

InitSummary ==
  \E n \in SummaryRows, outliers \in 0..MaxOutliers, z \in 0..MaxNullCols,
     is_dask \in BOOLEAN :
  \E nulls \in NullSets(n) :
    /\ ServiceIdle
    /\ caller = "test"
    /\ pc = "summarize"
    /\ plan = <<"inject">>
    /\ ran = ""
    /\ df = [is_dask |-> is_dask,
             columns |-> <<AgeColumn(n, Min2(outliers, n), nulls)>> \o
                         [k \in 1..z |-> AllNullColumn(NullColumnNames[k], n)]]
    /\ df_in = df
    /\ df0 = df
    /\ context = PipelineContext("healthcare", is_dask)
    /\ result = NoResult
    /\ all_logs = <<>>
    /\ summaries = <<>>

\* generate_json_summary as its caller runs it: process_dataset computes a
\* dask table into a pandas one first (tasks.py, lines 262-301)
Summarize ==
  /\ pc = "summarize"
  /\ LET table == IF caller = "process_dataset"
                  THEN [df EXCEPT !.is_dask = FALSE] ELSE df
     IN  \E sample \in SummarySamples(table) :
           summaries' = Append(summaries,
                               generate_json_summary(table, context.domain,
                                                     context.schema, sample))
  /\ pc' = IF plan = <<>> THEN "done" ELSE Head(plan)
  /\ plan' = IF plan = <<>> THEN <<>> ELSE Tail(plan)
  /\ ran' = "generate_json_summary"
  /\ UNCHANGED <<service, caller, df0, df, df_in, context, result, all_logs>>

SetCell(table, i, r, v) ==
  [table EXCEPT !.columns[i].cells[r] = v]

\* one more null cell in column i
InjectNull(i, r) ==
  /\ pc = "inject"
  /\ Len(summaries) <= MaxInjections
  /\ ~IsNull(df.columns[i].cells[r])
  /\ df' = SetCell(df, i, r, NaN)
  /\ df_in' = df
  /\ pc' = "summarize"
  /\ plan' = <<"inject">>
  /\ ran' = "inject_null"
  /\ UNCHANGED <<service, caller, df0, context, result, all_logs, summaries>>

\* one more outlier value in the numeric column i
InjectOutlier(i, r) ==
  /\ pc = "inject"
  /\ Len(summaries) <= MaxInjections
  /\ is_numeric_dtype(df.columns[i].dtype)
  /\ ~IsNull(df.columns[i].cells[r])
  /\ df.columns[i].cells[r] # OutlierValue
  /\ df' = SetCell(df, i, r, OutlierValue)
  /\ df_in' = df
  /\ pc' = "summarize"
  /\ plan' = <<"inject">>
  /\ ran' = "inject_outlier"
  /\ UNCHANGED <<service, caller, df0, context, result, all_logs, summaries>>

\* the rows injected into: the first two and the last
InjectionRows(n) == {1, 2, n} \cap (1..n)

NextSummary ==
  \/ Summarize
  \/ \E i \in 1..Len(df.columns), r \in InjectionRows(NRows(df)) : InjectNull(i, r)
  \/ \E i \in 1..Len(df.columns), r \in InjectionRows(NRows(df)) : InjectOutlier(i, r)

SpecSummary == InitSummary /\ [][NextSummary]_vars

(***************************************************************************)
(* Claims about the quality score (C7, C8).                                *)
(***************************************************************************)
LastSummary == summaries[Len(summaries)]

\* C7: dataset_quality_score lies in [0, 100] (in tenths: [0, 1000]), and the
\* accumulated penalty is never negative: each column adds its null
\* percentage times 50 and, when numeric, at most 10 more.
C7_ScoreWithin0And100 ==
  \A k \in 1..Len(summaries) :
    LET sm == summaries[k]
    IN  /\ sm.dataset_quality_score >= 0
        /\ sm.dataset_quality_score <= 1000
        /\ sm.quality_penalty.num >= 0
        /\ \A i \in 1..Len(sm.columns) :
             LET c == sm.columns[i]
                 null_penalty == Frac(50 * c.null_count, Max2(sm.shape.rows, 1))
             IN  /\ FracLeq(null_penalty, c.penalty)
                 /\ FracLeq(c.penalty, FracAdd(null_penalty, Frac(10, 1)))
        /\ (FracLeq(Frac(100, 1), sm.quality_penalty) => sm.dataset_quality_score = 0)

\* C7's case: a table whose penalty exceeds 100 and whose score is floored,
\* summarized together with a scored numeric column that holds an outlier
C7_Witness ==
  /\ summaries # <<>>
  /\ ~FracLeq(LastSummary.quality_penalty, Frac(100, 1))
  /\ LastSummary.dataset_quality_score = 0
  /\ LastSummary.columns[1].outlier_count > 0

\* C8: injecting one more null or one more outlier never raises the score.
C8_ScoreMonotone ==
  (pc = "inject" /\ Len(summaries) >= 2) =>
    LastSummary.dataset_quality_score
      <= summaries[Len(summaries) - 1].dataset_quality_score

(***************************************************************************)
(* Spec: process_dataset's run of the pipeline on an uploaded table, the   *)
(* summary of the cleaned table, and a second run on the cleaned table.    *)
(***************************************************************************)
KindFloatOutlier ==
  [dtype |-> "float64",
   cycle |-> <<Num(25), Num(30), Num(22), Num(25), Num(30), Num(22), Num(25),
               Num(30), Num(22), Num(25), OutlierValue>>]

\* "7" everywhere but in row 21
KindObjNumeric ==
  [dtype |-> "object",
   cycle |-> [i \in 1..21 |-> IF i = 21 THEN StrAlice ELSE StrSeven]]

NameAgeCap == <<"A", "g", "e">>
NameJoined == <<"J", "o", "i", "n", "e", "d">>
NameName == <<"n", "a", "m", "e", " ">>
NameActive == <<"A", "c", "t", "i", "v", "e">>
NameScore == <<"s", "c", "o", "r", "e">>

PipelineColumns ==
  {<<NameAgeCap, KindFloatOutlier>>, <<NameAge, KindFloatCycle>>,
   <<NameJoined, KindDateSeq>>, <<NameName, KindObjPadded>>,
   <<NameActive, KindObjYesNo>>, <<NameScore, KindObjNumeric>>,
   <<NameDate, KindObjDates>>}

PipelineSecondColumns ==
  {<<NameAgeCap, KindFloatOutlier>>, <<NameAge, KindFloatCycle>>,
   <<NameJoined, KindDateSeq>>}

PipelineRows == {0, 4, 11, MaxPipelineRows}

Init ==
  \E first \in PipelineColumns, second \in SUBSET PipelineSecondColumns,
     n \in PipelineRows, is_dask \in BOOLEAN, domain \in {"general", "healthcare"} :
  \E nulls1 \in NullSets(n), nulls2 \in {{}, {1} \cap (1..n)} :
    /\ Cardinality(second) <= 1
    /\ ServiceIdle
    /\ caller = "process_dataset"
    /\ pc = Head(PipelineSteps)
    /\ plan = Tail(PipelineSteps) \o <<"summarize", "resubmit">>
    /\ ran = ""
    /\ df = [is_dask |-> is_dask,
             columns |-> <<InputColumn(first[1], first[2], n, nulls1)>> \o
                         (IF second = {} THEN <<>>
                          ELSE LET c == CHOOSE c \in second : TRUE
                               IN  <<InputColumn(c[1], c[2], n, nulls2)>>)]
    /\ df_in = df
    /\ df0 = df
    /\ context = PipelineContext(domain, FALSE)
    /\ result = NoResult
    /\ all_logs = <<>>
    /\ summaries = <<>>

RunTypeFixer ==
  /\ pc = "TypeFixer"
  /\ \E failing \in SUBSET (1..Len(df.columns)) :
       StepTaken("TypeFixer", TypeFixer_run(df, context, failing))

RunDuplicateDetector ==
  /\ pc = "DuplicateDetector"
  /\ StepTaken("DuplicateDetector", DuplicateDetector_run(df, context))

RunOutlierDetector ==
  /\ pc = "OutlierDetector"
  /\ \E sample \in OutlierSamples(df), normal \in SUBSET (1..Len(df.columns)) :
       StepTaken("OutlierDetector", OutlierDetector_run(df, context, sample, normal))

RunEncoderSuggester ==
  /\ pc = "EncoderSuggester"
  /\ StepTaken("EncoderSuggester", EncoderSuggester_run(df, context))

\* a second job on the cleaned table: a fresh context and a fresh all_logs
\* (tasks.py, lines 218-225)
Resubmit ==
  /\ pc = "resubmit"
  /\ pc' = Head(PipelineSteps)
  /\ plan' = Tail(PipelineSteps) \o <<"summarize">>
  /\ ran' = "resubmit"
  /\ df0' = df
  /\ df_in' = df
  /\ context' = PipelineContext(context.domain, FALSE)
  /\ result' = NoResult
  /\ all_logs' = <<>>
  /\ UNCHANGED <<service, caller, df, summaries>>

Next ==
  \/ RunColumnNormalizer
  \/ RunSchemaAnalyzer
  \/ RunTypeFixer
  \/ RunMissingValueHandler
  \/ RunDuplicateDetector
  \/ RunOutlierDetector
  \/ RunEncoderSuggester
  \/ Summarize
  \/ Resubmit

Spec == Init /\ [][Next]_vars

(***************************************************************************)
(* Claims about the pipeline (C5, C6, C9).                                 *)
(***************************************************************************)
HasAction(logs, action) == \E i \in 1..Len(logs) : logs[i].action = action

StepRan == ran \in Range(PipelineSteps) /\ ~result.raised

Returned == caller = "process_dataset" /\ pc \in {"summarize", "resubmit", "done"}

\* every column of table b has as many rows as table a
SameRowCount(a, b) ==
  /\ NRows(b) = NRows(a)
  /\ \A i \in 1..Len(b.columns) : Len(b.columns[i].cells) = NRows(a)

\* C5: no step removes rows: after each of the seven steps the table has the
\* rows it had when the step took it, and the table run_pipeline returns has
\* the rows of the table it was called with.
C5_NoStepRemovesRows ==
  /\ StepRan => SameRowCount(df_in, df)
  /\ Returned => SameRowCount(df0, df)

\* C5's case: run_pipeline has returned a table with duplicate rows and
\* outliers, both of which it flagged
C5_Witness ==
  /\ Returned
  /\ HasAction(all_logs, "flag_duplicates")
  /\ HasAction(all_logs, "flag_outliers")
  /\ DuplicatedRows(df) # {}
  /\ NRows(df) >= MinOutlierValues

\* C6: OutlierDetector.run and EncoderSuggester.run return the table they
\* were given, cell for cell, and report no modified column.
C6_PureAnnotation ==
  (StepRan /\ ran \in {"OutlierDetector", "EncoderSuggester"}) =>
    /\ df = df_in
    /\ result.modified_columns = <<>>

\* C6's case: EncoderSuggester has logged a suggestion for a table in which
\* OutlierDetector flagged outliers and raised a domain warning
C6_Witness ==
  /\ StepRan
  /\ ran = "EncoderSuggester"
  /\ HasAction(result.logs, "suggest_encoder")
  /\ HasAction(all_logs, "flag_outliers")
  /\ \E i \in 1..Len(context.warnings) : context.warnings[i].kind = "healthcare_age"

\* C9: the second run of the pipeline, on the table the first run produced,
\* logs no rename_column, no impute and no add_indicator, and the quality
\* score after it equals the score after the first run.
C9_RoundTrip ==
  (caller = "process_dataset" /\ pc = "done" /\ Len(summaries) = 2) =>
    /\ ~HasAction(all_logs, "rename_column")
    /\ ~HasAction(all_logs, "impute")
    /\ ~HasAction(all_logs, "add_indicator")
    /\ summaries[2].dataset_quality_score = summaries[1].dataset_quality_score

(***************************************************************************)
(* DatasetLoader (app/pipeline/loader.py).                                 *)
(*                                                                         *)
(* A file is its descriptor's format, its size in MB, and what reading it  *)
(* does: bytes is "valid", "empty" (zero bytes) or "corrupt"; decode says  *)
(* whether the bytes are utf-8 ("utf8"), or hold a byte that is not, in    *)
(* the head of the file ("early") or beyond it ("late"); memory_error says *)
(* that the first read exhausts the memory; archive says what a zip file   *)
(* holds; table is the content of a valid file.  The dtype map of          *)
(* sniff_dtypes is not modelled, only whether sniffing raises.             *)
(***************************************************************************)
Formats == {"csv", "tsv", "json", "parquet", "excel", "zip"}

\* file_size_mb > 2000 selects dask (loader.py, line 71)
LargeFileMb == 2000

FileSizes == {0, 50, LargeFileMb, 3000}

NoTable == [is_dask |-> FALSE, columns |-> <<>>]

LoadWarning(kind) == [kind |-> kind]

\* load raised exc with the loader's warnings as they were
LoadRaised(exc, warnings) ==
  [raised |-> exc, df |-> NoTable, frame |-> "none", row_count |-> 0,
   col_count |-> 0, is_dask |-> FALSE, warnings |-> warnings]

\* DataFrameResult (lines 16-24); frame is the type of df
DataFrameResult(table, frame, is_dask, warnings) ==
  [raised |-> "", df |-> [table EXCEPT !.is_dask = (frame = "dask")],
   frame |-> frame, row_count |-> NRows(table),
   col_count |-> Len(table.columns), is_dask |-> is_dask, warnings |-> warnings]

\* sniff_dtypes (lines 126-152) reads the head of a csv or tsv file as utf-8
SniffRaises(f, format) ==
  /\ format \in {"csv", "tsv"}
  /\ f.bytes # "valid" \/ f.decode = "early"

\* the exception of read_csv, "" when it returns: pandas decodes the whole
\* file, dask only the head it samples; the memory runs out on the first
\* read only
ReadCsv(f, engine, encoding, attempt) ==
  IF f.memory_error /\ attempt = 1 THEN "MemoryError"
  ELSE IF encoding = "utf-8" /\ engine = "pandas" /\ f.decode # "utf8"
  THEN "UnicodeDecodeError"
  ELSE IF encoding = "utf-8" /\ engine = "dask" /\ f.decode = "early"
  THEN "UnicodeDecodeError"
  ELSE IF f.bytes = "empty" THEN "EmptyDataError"
  ELSE IF f.bytes = "corrupt" THEN "ParserError"
  ELSE ""

\* the exception of read_parquet, read_excel and read_json, "" when it
\* returns; read_json is tried twice (lines 90-94), and whether its first
\* try takes an empty file for an empty table is left open (lenient)
ReadOther(f, format, lenient) ==
  IF f.memory_error THEN "MemoryError"
  ELSE IF f.bytes = "valid" THEN ""
  ELSE IF format = "json" /\ f.bytes = "empty" /\ lenient THEN ""
  ELSE "ValueError"

\* lines 70-94: the first read, by size and format; exc = "" and
\* frame = "none" when no branch reads the file (df stays None)
FirstRead(f, format, lenient) ==
  IF f.size_mb > LargeFileMb
  THEN IF format = "csv"
       THEN [exc |-> ReadCsv(f, "dask", "utf-8", 1), frame |-> "dask", is_dask |-> TRUE]
       ELSE IF format = "parquet"
       THEN [exc |-> ReadOther(f, format, lenient), frame |-> "dask", is_dask |-> TRUE]
       ELSE [exc |-> "", frame |-> "none", is_dask |-> TRUE]
  ELSE IF format = "csv"
       THEN [exc |-> ReadCsv(f, "pandas", "utf-8", 1), frame |-> "pandas", is_dask |-> FALSE]
       ELSE IF format \in {"excel", "parquet", "json"}
       THEN [exc |-> ReadOther(f, format, lenient), frame |-> "pandas", is_dask |-> FALSE]
       ELSE [exc |-> "", frame |-> "none", is_dask |-> FALSE]

\* the table a read returns
TableRead(f) == IF f.bytes = "valid" THEN f.table ELSE NoTable

\* lines 105-124: the checks of the frame that was read
Validated(f, frame, is_dask, warnings) ==
  IF frame = "none" \/ Len(TableRead(f).columns) = 0
  THEN LoadRaised("ValidationError", warnings)
  ELSE IF NRows(TableRead(f)) = 0
  THEN LoadRaised("ValidationError", warnings)
  ELSE DataFrameResult(TableRead(f), frame, is_dask, warnings)

\* load (lines 30-124)
DatasetLoader_load(f, lenient) ==
  IF f.format = "zip" /\ f.archive = "corrupt" THEN LoadRaised("BadZipFile", <<>>)
  ELSE IF f.format = "zip" /\ f.archive = "no_entries"
  THEN LoadRaised("ValidationError", <<>>)
  ELSE
    LET format == IF f.format = "zip" THEN "csv" ELSE f.format
        sniffed == IF SniffRaises(f, format)
                   THEN <<LoadWarning("sniff_failed")>> ELSE <<>>
        first == FirstRead(f, format, lenient)
    IN  IF first.exc = "" THEN Validated(f, first.frame, first.is_dask, sniffed)
        ELSE IF first.exc = "UnicodeDecodeError"
        THEN LET warnings == sniffed \o <<LoadWarning("encoding_fallback")>>
                 again == ReadCsv(f, "pandas", "latin-1", 2)
             IN  IF again # "" THEN LoadRaised(again, warnings)
                 ELSE Validated(f, "pandas", first.is_dask, warnings)
        ELSE IF first.exc = "MemoryError"
        THEN LET warnings == sniffed \o <<LoadWarning("memory_fallback")>>
                 \* dd.read_csv whatever the format: a parquet or excel
                 \* file is not utf-8 text
                 again == IF format = "csv" THEN ReadCsv(f, "dask", "utf-8", 2)
                          ELSE "UnicodeDecodeError"
             IN  IF again # "" THEN LoadRaised(again, warnings)
                 ELSE Validated(f, "dask", TRUE, warnings)
        ELSE LoadRaised("DatasetLoadError", sniffed)

(***************************************************************************)
(* SpecLoader: DatasetLoader.load on a file drawn from the input set.      *)
(***************************************************************************)
\* a table of one column and n rows, a table without columns
LoaderTables ==
  {[is_dask |-> FALSE, columns |-> <<InputColumn(NameAge, KindFloatCycle, n, {})>>] :
     n \in {0, 2}} \cup {NoTable}

\* the files that can exist: an empty file has no bytes to decode and is
\* the only one of size 0; a csv file has a header; memory exhaustion is
\* left out for json, whose re-read as csv has no definite outcome
FilesOf(tables) ==
  {f \in [format : Formats, size_mb : FileSizes,
          bytes : {"valid", "empty", "corrupt"},
          decode : {"utf8", "early", "late"}, memory_error : BOOLEAN,
          archive : {"none", "ok", "corrupt", "no_entries"},
          table : tables] :
     /\ (f.format = "zip") = (f.archive # "none")
     /\ f.format # "zip" => ((f.bytes = "empty") = (f.size_mb = 0))
     /\ f.format = "zip" => f.size_mb > 0
     /\ f.bytes = "empty" => f.decode = "utf8"
     /\ f.bytes # "valid" => f.table = NoTable /\ ~f.memory_error
     /\ f.archive \in {"corrupt", "no_entries"} =>
          f.bytes = "valid" /\ f.decode = "utf8" /\ ~f.memory_error /\ f.table = NoTable
     /\ f.format \in {"csv", "tsv", "zip"} /\ f.bytes = "valid" /\ f.archive \in {"none", "ok"}
          => f.table # NoTable
     /\ f.format \notin {"csv", "tsv", "zip"} => f.decode = "utf8"
     /\ f.memory_error => f.format \in {"csv", "zip", "parquet", "excel"}}

Files == FilesOf(LoaderTables)

InitLoader ==
  \E f \in Files :
    /\ file = f
    /\ load_result = NoLoad
    /\ db = NoDb
    /\ task = NoTask
    /\ llm = NoLlm
    /\ notebook = NoNotebook
    /\ agents = NoAgents
    /\ caller = "test"
    /\ pc = "load"
    /\ plan = <<>>
    /\ ran = ""
    /\ df = NoTable
    /\ df_in = NoTable
    /\ df0 = NoTable
    /\ context = PipelineContext("general", FALSE)
    /\ result = NoResult
    /\ all_logs = <<>>
    /\ summaries = <<>>

\* loader.load(path, file_type, options) called on its own
Load ==
  /\ pc = "load"
  /\ \E lenient \in BOOLEAN :
       /\ load_result' = DatasetLoader_load(file, lenient)
       /\ df' = load_result'.df
  /\ pc' = IF load_result'.raised = "" THEN "done" ELSE "failed"
  /\ ran' = "load"
  /\ UNCHANGED <<caller, plan, df0, df_in, context, result, all_logs, summaries,
                 file, db, task, llm,
                 notebook, agents>>

NextLoader == Load

SpecLoader == InitLoader /\ [][NextLoader]_vars

Loaded == ran = "load"

(***************************************************************************)
(* Claims about DatasetLoader (C12, C13).                                  *)
(***************************************************************************)
\* C12: load chooses the engine of a csv file from its size alone: above
\* the threshold the frame is a partitioned one and the flag is set, at or
\* below it the frame is an eager one and the flag is clear, unless a
\* memory error forced the fallback.
C12_EngineBySizeAlone ==
  (Loaded /\ file.format = "csv" /\ load_result.raised = "") =>
    IF file.size_mb > LargeFileMb
    THEN load_result.frame = "dask" /\ load_result.is_dask
    ELSE \/ load_result.frame = "pandas" /\ ~load_result.is_dask
         \/ /\ file.memory_error
            /\ load_result.frame = "dask" /\ load_result.is_dask

\* the payload: the file itself, or the first file of a zip archive
HasPayload == file.archive \in {"none", "ok"}

\* the formats load has a reader for, by size class (lines 71-94); the
\* payload of a zip file is read as csv
PayloadFormat == IF file.format = "zip" THEN "csv" ELSE file.format

SupportedFormat ==
  IF file.size_mb > LargeFileMb THEN PayloadFormat \in {"csv", "parquet"}
  ELSE PayloadFormat \in {"csv", "excel", "parquet", "json"}

\* the conditions of a validation failure: an empty file or archive, a
\* result without columns, a result without rows
ValidationCondition ==
  \/ file.archive = "no_entries"
  \/ HasPayload /\ file.bytes = "empty"
  \/ HasPayload /\ file.bytes = "valid" /\ SupportedFormat
       /\ (Len(file.table.columns) = 0 \/ NRows(file.table) = 0)

\* the conditions of a load failure: a corrupt file, an unsupported format
LoadFailureCondition ==
  \/ file.archive = "corrupt"
  \/ HasPayload /\ file.bytes = "corrupt"
  \/ ~SupportedFormat

\* C13: an empty file, a zero-column result and a zero-row result are
\* reported as ValidationError, a corrupt file and an unsupported format as
\* DatasetLoadError, and never one kind as the other, for every format and
\* both size classes.
C13_FailureKindsDistinct ==
  Loaded =>
    /\ (ValidationCondition /\ ~LoadFailureCondition)
         => load_result.raised = "ValidationError"
    /\ (LoadFailureCondition /\ ~ValidationCondition)
         => load_result.raised = "DatasetLoadError"

(***************************************************************************)
(* Claims about run_pipeline (C14).                                        *)
(***************************************************************************)
\* step i of the pipeline runs next: the first one at the start of a run,
\* every other one right after step i - 1 returned
RunsInTurn(i) ==
  /\ ran' = PipelineSteps[i]
  /\ IF i = 1 THEN ran \in {"", "resubmit"}
     ELSE ran = PipelineSteps[i - 1] /\ ~result.raised

\* C14: the steps run in the order ColumnNormalizer, SchemaAnalyzer,
\* TypeFixer, MissingValueHandler, DuplicateDetector, OutlierDetector,
\* EncoderSuggester, each on the table the previous one returned; when a
\* step raises, run_pipeline raises: nothing runs after it, and neither a
\* table nor a log list is returned.
C14_StepsInOrderAbortOnRaise ==
  [][/\ pc # "failed"
     /\ ran' \in Range(PipelineSteps) =>
          /\ \E i \in 1..Len(PipelineSteps) : RunsInTurn(i)
          /\ df_in' = df
          /\ ~result'.raised => pc' # "failed"
          /\ result'.raised =>
               /\ pc' = "failed"
               /\ plan' = <<>>
               /\ all_logs' = all_logs
               /\ summaries' = summaries
     /\ ran' = "generate_json_summary" =>
          ran = PipelineSteps[Len(PipelineSteps)] /\ ~result.raised]_vars

\* C14's case: SchemaAnalyzer raised on the table ColumnNormalizer returned
\* after renaming a column, and the run has stopped there
C14_Witness ==
  /\ caller = "process_dataset"
  /\ pc = "failed"
  /\ ran = "SchemaAnalyzer"
  /\ result.raised
  /\ HasAction(all_logs, "rename_column")

(***************************************************************************)
(* SpecTask: the celery task process_dataset (workers/tasks.py, lines      *)
(* 145-423) on an uploaded file: load, the seven steps, the commit of the  *)
(* logs, the save of the cleaned table, the EDA report, the agents, and    *)
(* the two exception handlers.  A stage may fail for reasons outside the   *)
(* program (storage, database, memory): its fault is chosen freely.        *)
(***************************************************************************)
\* max_retries=2 of the task decorator (line 145)
MaxRetries == 2

TaskStages == <<"save_logs", "save_clean", "eda", "agents">>

\* a table of one column; a table with a repeated column name, which a
\* parquet file can hold and on which SchemaAnalyzer raises
TaskTables ==
  {[is_dask |-> FALSE, columns |-> <<InputColumn(NameAgeCap, KindFloatCycle, 4, {})>>],
   [is_dask |-> FALSE, columns |-> <<InputColumn(NameAge, KindFloatCycle, 4, {}),
                                     InputColumn(NameAge, KindFloatCycle, 4, {})>>]}

\* read_csv renames repeated column names, read_parquet keeps them
TaskFiles ==
  {f \in FilesOf(TaskTables \cup {NoTable}) :
     /\ f.format \in {"csv", "parquet", "tsv"}
     /\ f.size_mb \in {0, 50, 3000}
     /\ f.bytes # "corrupt"
     /\ f.decode # "early"
     /\ f.format = "tsv" => f.decode = "utf8"
     /\ f.bytes = "valid" => f.table # NoTable
     /\ (f.bytes = "valid" /\ Len(f.table.columns) = 2) = (f.format = "parquet")}

\* the rows of the dataset, its job, and the tables that hang off them
NewDb ==
  [status |-> "queued", row_count |-> 0, col_count |-> 0, logs |-> <<>>,
   cleaned_storage_path |-> "", eda_reports |-> 0, agent_reports |-> 0,
   error |-> FALSE, progress_pct |-> 0]

\* self.request.retries, options["force_dask"], the state celery gives the
\* task, and how many times the task met a MemoryError
NewTask ==
  [state |-> "running", retries |-> 0, force_dask |-> FALSE, memory_errors |-> 0]

InitTask ==
  \E f \in TaskFiles, domain \in {"general", "healthcare"} :
    /\ file = f
    /\ load_result = NoLoad
    /\ db = NewDb
    /\ task = NewTask
    /\ llm = NoLlm
    /\ notebook = NoNotebook
    /\ agents = NoAgents
    /\ caller = "process_dataset"
    /\ pc = "load_dataset"
    /\ plan = <<>>
    /\ ran = ""
    /\ df = NoTable
    /\ df_in = NoTable
    /\ df0 = NoTable
    /\ context = PipelineContext(domain, FALSE)
    /\ result = NoResult
    /\ all_logs = <<>>
    /\ summaries = <<>>

\* where a stage that raised exc goes: the handler of MemoryError (line
\* 397) or the handler of Exception (line 406)
HandlerOf(exc) == IF exc = "MemoryError" THEN "memory_error" ELSE "failed"

Faults == {"none", "MemoryError", "Exception"}

\* lines 156-225: status preprocessing (progress 15), loader.load, the counts of the
\* loaded table, a fresh PipelineContext; run_pipeline starts
LoadDataset ==
  /\ pc = "load_dataset"
  /\ \E lenient \in BOOLEAN :
       load_result' = DatasetLoader_load(file, lenient)
  /\ ran' = "load"
  /\ IF load_result'.raised = ""
     THEN /\ df' = load_result'.df
          /\ db' = [db EXCEPT !.status = "preprocessing",
                              !.progress_pct = 15,
                              !.row_count = load_result'.row_count,
                              !.col_count = load_result'.col_count]
          /\ pc' = Head(PipelineSteps)
          /\ plan' = Tail(PipelineSteps) \o TaskStages
     ELSE /\ df' = NoTable
          /\ db' = [db EXCEPT !.status = "preprocessing", !.progress_pct = 15]
          /\ pc' = HandlerOf(load_result'.raised)
          /\ plan' = <<>>
  /\ df0' = df'
  /\ df_in' = df'
  /\ context' = PipelineContext(context.domain, FALSE)
  /\ result' = NoResult
  /\ all_logs' = <<>>
  /\ UNCHANGED <<caller, summaries, file, task, llm,
                 notebook, agents>>

\* a stage raised exc: nothing of it is written
StageRaised(exc) ==
  /\ pc' = HandlerOf(exc)
  /\ plan' = <<>>
  /\ UNCHANGED <<df, db, summaries>>

StageDone ==
  /\ pc' = IF plan = <<>> THEN "done" ELSE Head(plan)
  /\ plan' = IF plan = <<>> THEN <<>> ELSE Tail(plan)

\* lines 227-241: one ProcessingLog row per log, committed together
SaveLogs ==
  /\ pc = "save_logs"
  /\ ran' = "save_logs"
  /\ \E fault \in {"none", "Exception"} :
       IF fault = "none"
       THEN /\ db' = [db EXCEPT !.logs = @ \o all_logs]
            /\ StageDone
            /\ UNCHANGED <<df, summaries>>
       ELSE StageRaised(fault)
  /\ UNCHANGED <<caller, df0, df_in, context, result, all_logs, file,
                 load_result, task, llm,
                 notebook, agents>>

\* lines 261-290: compute, to_parquet, upload, then the storage path and
\* the status eda_running in one commit
SaveClean ==
  /\ pc = "save_clean"
  /\ ran' = "save_clean"
  /\ \E fault \in Faults :
       IF fault = "none"
       THEN /\ df' = [df EXCEPT !.is_dask = FALSE]
            /\ db' = [db EXCEPT !.cleaned_storage_path = "clean",
                                !.status = "eda_running",
                                !.progress_pct = 65]
            /\ StageDone
            /\ UNCHANGED summaries
       ELSE StageRaised(fault)
  /\ UNCHANGED <<caller, df0, df_in, context, result, all_logs, file,
                 load_result, task, llm,
                 notebook, agents>>

\* lines 301-347: the summary, the report, then the EDAReport row and the
\* status agents_running in one commit
Eda ==
  /\ pc = "eda"
  /\ ran' = "eda"
  /\ \E fault \in Faults :
       IF fault = "none"
       THEN /\ \E sample \in SummarySamples(df) :
                 summaries' = Append(summaries,
                                     generate_json_summary(df, context.domain,
                                                           context.schema, sample))
            /\ db' = [db EXCEPT !.eda_reports = @ + 1, !.status = "agents_running",
                                !.progress_pct = 80]
            /\ StageDone
            /\ UNCHANGED df
       ELSE StageRaised(fault)
  /\ UNCHANGED <<caller, df0, df_in, context, result, all_logs, file,
                 load_result, task, llm,
                 notebook, agents>>

\* run_all_agents returns the outputs of the agents that did not fail
\* (orchestrator.py, lines 23-98): none, or up to five
AgentCounts == {0, 3, 5}

\* lines 358-395: the agents, then their AgentReport rows and the status
\* complete in one commit
Agents ==
  /\ pc = "agents"
  /\ ran' = "agents"
  /\ \E fault \in {"none", "Exception"}, n \in AgentCounts :
       IF fault = "none"
       THEN /\ db' = [db EXCEPT !.agent_reports = @ + n, !.status = "complete",
                                !.progress_pct = 100]
            /\ task' = [task EXCEPT !.state = "success"]
            /\ pc' = "done"
            /\ plan' = <<>>
            /\ UNCHANGED <<df, summaries>>
       ELSE StageRaised(fault) /\ UNCHANGED task
  /\ UNCHANGED <<caller, df0, df_in, context, result, all_logs, file,
                 load_result, llm,
                 notebook, agents>>

\* lines 406-419: except Exception: status failed, the error stored, raise
Fail ==
  /\ pc = "failed"
  /\ caller = "process_dataset"
  /\ task.state = "running"
  /\ db' = [db EXCEPT !.status = "failed", !.error = TRUE, !.progress_pct = 0]
  /\ task' = [task EXCEPT !.state = "failure"]
  /\ pc' = "done"
  /\ UNCHANGED <<caller, plan, ran, df0, df, df_in, context, result, all_logs,
                 summaries, file, load_result, llm,
                 notebook, agents>>

\* lines 397-405: except MemoryError: force_dask is set in the options and
\* self.retry runs the task again, unless max_retries retries were made:
\* then self.retry raises MaxRetriesExceededError out of the handler
Retry ==
  /\ pc = "memory_error"
  /\ task.state = "running"
  /\ IF task.retries < MaxRetries
     THEN /\ task' = [task EXCEPT !.retries = @ + 1, !.force_dask = TRUE,
                                  !.memory_errors = @ + 1]
          /\ pc' = "load_dataset"
     ELSE /\ task' = [task EXCEPT !.state = "failure", !.force_dask = TRUE,
                                  !.memory_errors = @ + 1]
          /\ pc' = "done"
  /\ UNCHANGED <<caller, plan, ran, df0, df, df_in, context, result, all_logs,
                 summaries, file, load_result, db, llm,
                 notebook, agents>>

NextTask ==
  \/ LoadDataset
  \/ RunColumnNormalizer
  \/ RunSchemaAnalyzer
  \/ RunTypeFixer
  \/ RunMissingValueHandler
  \/ RunDuplicateDetector
  \/ RunOutlierDetector
  \/ RunEncoderSuggester
  \/ SaveLogs
  \/ SaveClean
  \/ Eda
  \/ Agents
  \/ Fail
  \/ Retry

SpecTask == InitTask /\ [][NextTask]_vars

(***************************************************************************)
(* Claims about process_dataset (C15, C16, C17).                           *)
(***************************************************************************)
\* the run ended in the handler of Exception
RunFailed == db.status = "failed"

\* C15: when a run of process_dataset ends in failure, at whatever stage,
\* none of its outputs remain persisted: no processing-log rows, no
\* cleaned-table storage path, no EDA report row, no agent report rows.
C15_NothingPersistedOnFailure ==
  RunFailed =>
    /\ db.logs = <<>>
    /\ db.cleaned_storage_path = ""
    /\ db.eda_reports = 0
    /\ db.agent_reports = 0

\* the task is in a retry and has loaded its table again
LoadedInRetry ==
  /\ task.retries >= 1
  /\ pc # "load_dataset"
  /\ load_result.raised = ""

\* C16: a run that hits memory exhaustion is not marked failed; the whole
\* run is retried once and not more, and the retry loads the data through
\* the partitioned engine.
C16_MemoryErrorRetriedOnceOnDask ==
  /\ pc = "memory_error" => db.status # "failed"
  /\ task.retries <= 1
  /\ LoadedInRetry => load_result.frame = "dask" /\ load_result.is_dask

\* every warning of the sequence ws is on the context
OnContext(ws) == \A i \in 1..Len(ws) : ws[i] \in Range(context.warnings)

\* C17: every warning raised during a run, by the loader or by a step, is
\* in the context's warnings list when the run finishes, and a warning
\* never keeps the following steps from running.
C17_WarningsAccumulated ==
  /\ (StepRan /\ caller = "process_dataset") =>
       /\ OnContext(result.warnings)
       /\ pc # "failed"
  /\ (caller = "process_dataset" /\ task # NoTask /\ task.state = "success") =>
       OnContext(load_result.warnings)

(***************************************************************************)
(* Claims about modified_columns (C18).                                    *)
(***************************************************************************)
\* the column at position i of the step's output was added by the step, or
\* differs from the column at that position of its input in name, dtype or
\* values
ColumnChanged(i) ==
  \/ i > Len(df_in.columns)
  \/ df.columns[i] # df_in.columns[i]

\* the column at position i is listed in modified_columns, under the name
\* it has in the output or the one it had in the input
ColumnListed(i) ==
  \/ df.columns[i].name \in Range(result.modified_columns)
  \/ /\ i <= Len(df_in.columns)
     /\ df_in.columns[i].name \in Range(result.modified_columns)

\* C18: for every step, each column whose values, dtype or name the step
\* changed, and each column it added, is listed in the StepResult's
\* modified_columns; TypeFixer's whitespace stripping included.
C18_ModifiedColumnsComplete ==
  StepRan => \A i \in 1..Len(df.columns) : ColumnChanged(i) => ColumnListed(i)

(***************************************************************************)
(* Claims about a second ColumnNormalizer run (C19).                       *)
(***************************************************************************)
\* C19: ColumnNormalizer is idempotent: run on the table a previous
\* ColumnNormalizer run returned, it renames nothing, logs no
\* rename_column, reports no modified column and leaves the role map of
\* the context as it was.
C19_NormalizerIdempotent ==
  [][(ran = "ColumnNormalizer" /\ ran' = "ColumnNormalizer") =>
       /\ ColumnNames(df') = ColumnNames(df)
       /\ ~HasAction(result'.logs, "rename_column")
       /\ result'.modified_columns = <<>>
       /\ context'.schema = context.schema]_vars

(***************************************************************************)
(* LLMClient.complete (app/core/llm_client.py, lines 35-77) and SpecLLM:   *)
(* one call of complete, the provider answering each request as it likes.  *)
(* The imports of the exception handler (lines 59-61) are taken to succeed. *)
(***************************************************************************)
\* retries = 3 (line 43)
Retries == 3

\* backoff = [1, 2, 4] (line 44)
Backoff == <<1, 2, 4>>

\* sleep_time = 10 after a rate limit (line 73)
RateLimitSleep == 10

Providers == {"openai", "anthropic"}

\* what a request to the provider does: it answers, or raises an error, a
\* timeout, or a rate limit error (or one whose message holds "429")
ProviderOutcomes == {"ok", "error", "timeout", "rate_limit"}

\* complete has been called: attempt is the loop variable, calls counts
\* the requests made, sleeps lists the time.sleep calls, log the errors
\* of the failed attempts
NewCall(provider, response_format) ==
  [state |-> "running", provider |-> provider,
   response_format |-> response_format, attempt |-> 0, calls |-> 0,
   sleeps |-> <<>>, log |-> <<>>,
   error |-> [retries |-> 0, provider |-> ""]]

\* the same loop body sleeping before it raises on the last attempt: what
\* complete must not do
CompleteAttempt_SleepThenRaise(l, outcome) ==
  IF outcome = "ok"
  THEN [l EXCEPT !.state = "returned", !.calls = @ + 1]
  ELSE LET sleep_time == IF outcome = "rate_limit" THEN RateLimitSleep
                         ELSE Backoff[l.attempt + 1]
       IN  IF l.attempt = Retries - 1
           THEN [l EXCEPT !.state = "raised", !.calls = @ + 1,
                          !.log = Append(@, outcome),
                          !.sleeps = Append(@, sleep_time),
                          !.error = [retries |-> Retries, provider |-> l.provider]]
           ELSE [l EXCEPT !.calls = @ + 1, !.log = Append(@, outcome),
                          !.sleeps = Append(@, sleep_time),
                          !.attempt = @ + 1]

\* one pass of the loop (lines 46-75): a request; its response returned,
\* or LLMError raised on the last attempt, or a sleep before the next one
CompleteAttempt(l, outcome) ==
  IF outcome = "ok"
  THEN [l EXCEPT !.state = "returned", !.calls = @ + 1]
  ELSE IF l.attempt = Retries - 1
  THEN [l EXCEPT !.state = "raised", !.calls = @ + 1,
                 !.log = Append(@, outcome),
                 !.error = [retries |-> Retries, provider |-> l.provider]]
  ELSE LET sleep_time == IF outcome = "rate_limit" THEN RateLimitSleep
                         ELSE Backoff[l.attempt + 1]
       IN  [l EXCEPT !.calls = @ + 1, !.log = Append(@, outcome),
                     !.sleeps = Append(@, sleep_time),
                     !.attempt = @ + 1]

InitLLM ==
  \E provider \in Providers, response_format \in {"text", "json"} :
    /\ llm = NewCall(provider, response_format)
    /\ notebook = NoNotebook
    /\ agents = NoAgents
    /\ file = NoFile
    /\ load_result = NoLoad
    /\ db = NoDb
    /\ task = NoTask
    /\ caller = "test"
    /\ pc = "complete"
    /\ plan = <<>>
    /\ ran = ""
    /\ df = NoTable
    /\ df_in = NoTable
    /\ df0 = NoTable
    /\ context = PipelineContext("general", FALSE)
    /\ result = NoResult
    /\ all_logs = <<>>
    /\ summaries = <<>>

\* the next pass of the loop of complete; range(retries) ends the loop
Complete ==
  /\ pc = "complete"
  /\ llm.attempt < Retries
  /\ \E outcome \in ProviderOutcomes :
       llm' = CompleteAttempt(llm, outcome)
  /\ pc' = IF llm'.state = "running" THEN "complete" ELSE "done"
  /\ ran' = "complete"
  /\ UNCHANGED <<caller, plan, df0, df, df_in, context, result, all_logs,
                 summaries, file, load_result, db, task, notebook, agents>>

NextLLM == Complete

SpecLLM == InitLLM /\ [][NextLLM]_vars

(***************************************************************************)
(* Claims about LLMClient.complete (C20).                                  *)
(***************************************************************************)
Called == llm # NoLlm

\* C20: complete calls the provider at most 3 times: it returns the first
\* successful response without a further call, sleeps and retries after
\* each of the first two failures, and when all 3 attempts fail raises
\* LLMError with retries = 3 and the provider's name, without a sleep after
\* the last attempt.
C20_AtMostThreeCalls ==
  /\ [](Called =>
         /\ llm.calls <= 3
         /\ Len(llm.log) <= llm.calls
         /\ llm.state = "running" =>
              Len(llm.log) = llm.calls /\ Len(llm.sleeps) = llm.calls /\ llm.calls <= 2
         /\ llm.state = "returned" =>
              Len(llm.log) = llm.calls - 1 /\ Len(llm.sleeps) = llm.calls - 1
         /\ llm.state = "raised" =>
              /\ llm.calls = 3
              /\ Len(llm.log) = 3
              /\ Len(llm.sleeps) = 2
              /\ llm.error = [retries |-> 3, provider |-> llm.provider])
  /\ [][Called => llm.state = "running"]_vars

\* C20's case: all three requests failed, the second with a rate limit,
\* and LLMError was raised
C20_Witness ==
  /\ Called
  /\ llm.state = "raised"
  /\ llm.calls = 3
  /\ llm.sleeps = <<1, 10>>

(***************************************************************************)
(* Claims about the engine flag of a load result (C30).                    *)
(***************************************************************************)
\* C30: in every result load returns, is_dask is true exactly when the
\* returned table is a partitioned one, on every path, the encoding
\* fallback and the memory fallback included.
C30_FlagAgreesWithFrame ==
  (Loaded /\ load_result.raised = "") =>
    (load_result.is_dask <=> load_result.frame = "dask")

(***************************************************************************)
(* SpecTypeFixer: TypeFixer.run on its own, on a table of one or two       *)
(* columns and a schema naming the role of the first.                      *)
(***************************************************************************)
\* True in rows 1 to 20 and "yes" in row 21: numbers to more than 95%, and
\* boolean words throughout
KindObjBoolish ==
  [dtype |-> "object",
   cycle |-> [i \in 1..21 |-> IF i = 21 THEN StrYes ELSE PyTrue]]

TypeFixKinds ==
  {KindObjNumeric, KindObjBoolish, KindObjYesNo, KindObjDates, KindObjNames,
   KindObjPadded, KindFloatCycle}

InitTypeFixer ==
  \E kind \in TypeFixKinds, n \in {1, 4, MaxPipelineRows}, is_dask \in BOOLEAN,
     role \in {"none", "datetime_col"}, second \in {{}, {KindObjYesNo}} :
  \E nulls \in NullSets(n) :
    /\ ServiceIdle
    /\ caller = "test"
    /\ pc = "TypeFixer"
    /\ plan = <<>>
    /\ ran = ""
    /\ df = [is_dask |-> is_dask,
             columns |-> <<InputColumn(NameDate, kind, n, nulls)>> \o
                         (IF second = {} THEN <<>>
                          ELSE <<InputColumn(NameActive, KindObjYesNo, n, {})>>)]
    /\ df_in = df
    /\ df0 = df
    /\ context = [PipelineContext("general", FALSE) EXCEPT
                    !.schema = SchemaOf(<<NameDate>>, <<role>>)]
    /\ result = NoResult
    /\ all_logs = <<>>
    /\ summaries = <<>>

NextTypeFixer == RunTypeFixer

SpecTypeFixer == InitTypeFixer /\ [][NextTypeFixer]_vars

(***************************************************************************)
(* Claims about TypeFixer's coercions (C23).                               *)
(***************************************************************************)
TypeFixerRan == ran = "TypeFixer" /\ ~result.raised

\* the number of log entries of the given action for the column
CoercionLogs(col, action) ==
  Len(SelectSeq(result.logs,
                LAMBDA l : l.action = action /\ l.column_name = col))

\* the column at position i went into the step as text and came out as dates
BecameDatetime(i) ==
  /\ is_object_dtype(df_in.columns[i].dtype)
  /\ df.columns[i].dtype = "datetime64"

DatetimeFailed(col) ==
  \E k \in 1..Len(result.warnings) :
    result.warnings[k] = [kind |-> "datetime_failed", column |-> col]

\* the stripped values of input column i and the sample the tests look at
StrippedCells(i) ==
  [k \in 1..Len(df_in.columns[i].cells) |->
     StripCell(df_in.columns[i].cells[k], df_in.is_dask)]

CoercionSample(i) ==
  IF df_in.is_dask
  THEN Head_n(StrippedCells(i), Min2(TypeSampleRows, NRows(df_in)))
  ELSE Head_n(DropNa(StrippedCells(i)), TypeSampleRows)

\* more than 95% but not all of the sample are numbers
NumericFits(i) ==
  LET sample == CoercionSample(i)
      valid == Len(SelectSeq(sample, LAMBDA c : ~IsNull(ToNumeric(c))))
  IN  sample # <<>> /\ 100 * valid > 95 * Len(sample) /\ valid < Len(sample)

\* every value of the sample is a boolean word
BooleanFits(i) ==
  LET sample == CoercionSample(i)
  IN  sample # <<>> /\ \A k \in 1..Len(sample) : LowerStr(sample[k]) \in BoolVocabulary

KindFloatHalfOld == [dtype |-> "float64", cycle |-> <<Num(25), OutlierValue>>]

OutlierKinds ==
  {KindFloatOutlier, KindFloatHalfOld, KindFloatCycle, KindIntSeq, KindObjNames}

OutlierNames == {NameAge, NameAgeCap, NameScore}

OutlierRows == {MinOutlierValues - 1, MinOutlierValues + 1, MaxPipelineRows}

InitOutlier ==
  \E kind \in OutlierKinds, name \in OutlierNames, n \in OutlierRows,
     is_dask \in BOOLEAN, role \in SchemaRoles,
     domain \in {"general", "healthcare"} :
  \E nulls \in NullSets(n),
     second \in {<<>>, <<NameJoined>>, <<name>>, <<name, NameJoined>>} :
    /\ ServiceIdle
    /\ caller = "test"
    /\ pc = "OutlierDetector"
    /\ plan = <<>>
    /\ ran = ""
    /\ df = [is_dask |-> is_dask,
             columns |-> <<InputColumn(name, kind, n, nulls)>> \o
                         [k \in 1..Len(second) |->
                            InputColumn(second[k], KindFloatOutlier, n, {})]]
    /\ df_in = df
    /\ df0 = df
    /\ context = [PipelineContext(domain, FALSE) EXCEPT
                    !.schema = SchemaOf(<<name>>, <<role>>)]
    /\ result = NoResult
    /\ all_logs = <<>>
    /\ summaries = <<>>

NextOutlier == RunOutlierDetector

SpecOutlier == InitOutlier /\ [][NextOutlier]_vars

OutlierRan == ran = "OutlierDetector"

\* reading column i raises: its name is repeated in the table
ColumnRaises(i) == Cardinality(Positions(df_in, df_in.columns[i].name)) # 1

\* the valid values of column i that the detector looks at
OutlierSeries(i) == DropNa(df_in.columns[i].cells)

\* column i passes the tests of lines 30-40
OutlierEligible(i) ==
  /\ ~ColumnRaises(i)
  /\ is_numeric_dtype(df_in.columns[i].dtype)
  /\ ~is_bool_dtype(df_in.columns[i].dtype)
  /\ DictGet(context.schema, df_in.columns[i].name, "None")
       \notin {"id_col", "datetime_col"}
  /\ Len(OutlierSeries(i)) >= MinOutlierValues

FlagsOf(col) ==
  SelectSeq(result.logs,
            LAMBDA l : l.action = "flag_outliers" /\ l.column_name = col)

SkipsOf(col) ==
  SelectSeq(result.logs,
            LAMBDA l : l.action = "skip_column" /\ l.column_name = col)

\* C24: an exception raised while OutlierDetector processes a column is
\* caught: the step returns normally with the table it was given; for each
\* raising column it holds one skip_column log entry with the reason and one
\* warning; and every other column is processed as if nothing had raised
\* (an eligible column is flagged exactly when its method counts an outlier,
\* and gets its domain warnings).
C24_ColumnErrorSkipsColumn ==
  OutlierRan =>
    /\ ~result.raised
    /\ df = df_in
    /\ \A i \in 1..Len(df_in.columns) :
         LET col == df_in.columns[i].name
         IN  IF ColumnRaises(i)
             THEN /\ Len(SkipsOf(col)) = Cardinality(Positions(df_in, col))
                  /\ \A k \in 1..Len(SkipsOf(col)) :
                       /\ SkipsOf(col)[k].after_value.reason = "AttributeError"
                       /\ SkipsOf(col)[k].severity = "warning"
                  /\ HasWarning(result.warnings, "outlier_skipped", col)
                  /\ FlagsOf(col) = <<>>
             ELSE /\ SkipsOf(col) = <<>>
                  /\ ~HasWarning(result.warnings, "outlier_skipped", col)
                  /\ Len(FlagsOf(col)) <= 1
                  /\ FlagsOf(col) # <<>> => OutlierEligible(i)
                  /\ OutlierEligible(i) =>
                       /\ \/ FlagsOf(col) # <<>>
                          \/ ZScoreOutlierCount(OutlierSeries(i)) = 0
                          \/ IqrOutlierCount(OutlierSeries(i)) = 0
                       /\ \A k \in 1..Len(DomainWarnings(context.domain, col,
                                                         OutlierSeries(i))) :
                            HasWarning(result.warnings,
                                       DomainWarnings(context.domain, col,
                                                      OutlierSeries(i))[k].kind,
                                       col)

\* C24's case: a name is repeated, its two columns are skipped with a log
\* entry each, and the column after them is flagged
C24_Witness ==
  /\ OutlierRan
  /\ ~result.raised
  /\ Len(df_in.columns) = 3
  /\ ColumnRaises(1) /\ ColumnRaises(2) /\ ~ColumnRaises(3)
  /\ Len(SkipsOf(df_in.columns[1].name)) = 2
  /\ FlagsOf(df_in.columns[3].name) # <<>>

\* column i is an age column holding a value above 120
AgeAbove120(i) ==
  /\ NameHasAny(df_in.columns[i].name, {"age"})
  /\ AnyAbove(OutlierSeries(i), 120)

AgeWarned(i) ==
  HasWarning(result.warnings, "healthcare_age", df_in.columns[i].name)

C26_SkippedDetectionLogged ==
  (ran = "DuplicateDetector" /\ ~result.raised /\ df_in.is_dask) =>
    \/ \E k \in 1..Len(result.logs) :
         result.logs[k].step_name = "DuplicateDetector"
    \/ result.warnings # <<>>

\* the orders in which n columns can appear
Orders(n) == {p \in [1..n -> 1..n] : \A i, j \in 1..n : p[i] = p[j] => i = j}

\* the table with its columns in the order p
Reordered(table, p) ==
  [table EXCEPT !.columns = [i \in 1..Len(table.columns) |-> table.columns[p[i]]]]

NameSet(table) == {table.columns[i].name : i \in 1..Len(table.columns)}

\* C27: ColumnNormalizer is order-independent: for every permutation of the
\* columns it was given, the set of output column names is the one it
\* returned.
C27_OrderIndependent ==
  (ran = "ColumnNormalizer" /\ ~result.raised) =>
    \A p \in Orders(Len(df_in.columns)) :
      NameSet(ColumnNormalizer_run(Reordered(df_in, p),
                                   PipelineContext("general", FALSE)).df)
        = NameSet(df)

(***************************************************************************)
(* The recorded status over the life of a job (C28, C29).                  *)
(***************************************************************************)
\* the steps of the task other than the normalizer and the EDA stage
TaskStep ==
  \/ LoadDataset
  \/ RunSchemaAnalyzer
  \/ RunTypeFixer
  \/ RunMissingValueHandler
  \/ RunDuplicateDetector
  \/ RunOutlierDetector
  \/ RunEncoderSuggester
  \/ SaveLogs
  \/ SaveClean
  \/ Agents
  \/ Fail
  \/ Retry

\* the worker runs a started task to its end, and celery delivers a retry
\* it has scheduled (countdown=5): no step that can be taken is put off for
\* ever. For the normalizer and the EDA stage, which are enabled whenever
\* the task stands at them and always move it on, the same condition is
\* stated as: the task does not stand there for ever.
FairSpecTask ==
  /\ SpecTask
  /\ WF_vars(TaskStep)
  /\ []<>(pc \notin {"ColumnNormalizer", "eda"})

TerminalStatuses == {"complete", "failed"}

\* C28: every process_dataset job eventually reaches a terminal recorded
\* status: whatever failure occurs, the status in the database ends as
\* complete or failed.
C28_EventuallyTerminalStatus == <>(db.status \in TerminalStatuses)

\* DatasetStatusEnum, in the order of the stages
StatusOrder == <<"queued", "preprocessing", "eda_running", "agents_running", "complete">>

StatusRank(status) == CHOOSE k \in 1..Len(StatusOrder) : StatusOrder[k] = status

\* C29: over the whole life of a job, retries included, the recorded status
\* never moves backward in the order queued, preprocessing, eda_running,
\* agents_running, complete; complete and failed are never left; and
\* progress 100 is recorded only with status complete.
C29_StatusNeverMovesBackward ==
  /\ [](db.progress_pct = 100 => db.status = "complete")
  /\ [][ /\ (db.status # "failed" /\ db'.status # "failed") =>
              StatusRank(db'.status) >= StatusRank(db.status)
         /\ db.status \in TerminalStatuses => db'.status = db.status ]_vars

(***************************************************************************)
(* NotebookRunner (notebooks/runner.py).                                   *)
(***************************************************************************)
\* the columns of the table the cells are run against
NotebookColumns == {"harm_type", "year"}

\* the analysis types of the dispatch table (lines 52-61) that are modelled
Dispatch == {"distribution", "summary"}

\* run_cell(cell, df): what it returns, or the message of what it raises
run_cell(cell) ==
  IF cell.type = "text" /\ cell.analysis_type = ""
  THEN [raised |-> "", result |-> "text"]
  ELSE IF cell.analysis_type \notin Dispatch
  THEN [raised |-> "Unknown analysis type", result |-> "none"]
  ELSE IF cell.analysis_type = "summary"
  THEN [raised |-> "", result |-> "stats"]
  \* _run_distribution, lines 110-136
  ELSE IF cell.field = ""
  THEN [raised |-> "Missing required config: field", result |-> "none"]
  ELSE IF cell.field \notin NotebookColumns
  THEN [raised |-> "Column not found", result |-> "none"]
  ELSE [raised |-> "", result |-> "chart"]

\* lines 25-35: the entry stored for a cell
CellOutcome(cell) ==
  IF run_cell(cell).raised = ""
  THEN [status |-> "success", result |-> run_cell(cell).result, error |-> ""]
  ELSE [status |-> "error", result |-> "none", error |-> run_cell(cell).raised]

\* one pass of the loop of run_all (lines 19-35) for the cell at nb.next:
\* a cell without an id is passed over; the others are run and their outcome
\* is stored under their id
RunAllStep(nb) ==
  LET cell == nb.cells[nb.next]
  IN  IF cell.id = ""
      THEN [nb EXCEPT !.next = @ + 1]
      ELSE [nb EXCEPT !.next = @ + 1,
                      !.executed = Append(@, nb.next),
                      !.results = DictSet(@, cell.id, CellOutcome(cell))]

(***************************************************************************)
(* SpecNotebook: run_all on a notebook of up to MaxCells cells.            *)
(***************************************************************************)
MaxCells == 3

CellIds == {"", "c1", "c2"}

\* a text cell, a distribution of a column, of a missing column, and an
\* unknown analysis type
CellKinds ==
  { [type |-> "text", analysis_type |-> "", field |-> ""],
    [type |-> "analysis", analysis_type |-> "distribution", field |-> "harm_type"],
    [type |-> "analysis", analysis_type |-> "distribution", field |-> "missing_col"],
    [type |-> "analysis", analysis_type |-> "trendline", field |-> ""] }

NotebookCells ==
  { [id |-> id, type |-> k.type, analysis_type |-> k.analysis_type, field |-> k.field] :
      id \in CellIds, k \in CellKinds }

InitNotebook ==
  \E n \in 1..MaxCells :
  \E cells \in [1..n -> NotebookCells] :
    /\ notebook = [state |-> "running", cells |-> cells, next |-> 1,
                   executed |-> <<>>, results |-> <<>>]
    /\ file = NoFile
    /\ load_result = NoLoad
    /\ db = NoDb
    /\ task = NoTask
    /\ llm = NoLlm
    /\ agents = NoAgents
    /\ caller = "test"
    /\ pc = "run_all"
    /\ plan = <<>>
    /\ ran = ""
    /\ df = NoTable
    /\ df_in = NoTable
    /\ df0 = NoTable
    /\ context = PipelineContext("general", FALSE)
    /\ result = NoResult
    /\ all_logs = <<>>
    /\ summaries = <<>>

\* the next pass of the loop of run_all
RunAll ==
  /\ pc = "run_all"
  /\ notebook.next <= Len(notebook.cells)
  /\ notebook' = RunAllStep(notebook)
  /\ ran' = "run_all"
  /\ UNCHANGED <<caller, pc, plan, df0, df, df_in, context, result, all_logs,
                 summaries, file, load_result, db, task, llm, agents>>

\* line 36: return results
RunAllReturns ==
  /\ pc = "run_all"
  /\ notebook.next > Len(notebook.cells)
  /\ notebook' = [notebook EXCEPT !.state = "returned"]
  /\ pc' = "done"
  /\ ran' = "run_all"
  /\ UNCHANGED <<caller, plan, df0, df, df_in, context, result, all_logs,
                 summaries, file, load_result, db, task, llm, agents>>

NextNotebook == RunAll \/ RunAllReturns

SpecNotebook == InitNotebook /\ [][NextNotebook]_vars

(***************************************************************************)
(* Claims about NotebookRunner.run_all (C21).                              *)
(***************************************************************************)
\* the positions of the cells with a non-empty id, in notebook order
CellsWithId(cells) ==
  SelectSeq([i \in 1..Len(cells) |-> i], LAMBDA i : cells[i].id # "")

RunAllReturned == notebook # NoNotebook /\ notebook.state = "returned"

\* C21: run_all runs every cell that has a non-empty id, in notebook order;
\* a cell that raises is recorded with status "error" and its message and
\* the cells after it are still run; each cell that was run has one result
\* entry of its own, which holds its outcome (status success or error).
C21_EveryCellRunAndRecorded ==
  RunAllReturned =>
    /\ notebook.executed = CellsWithId(notebook.cells)
    /\ Len(notebook.results) = Len(notebook.executed)
    /\ \A k \in 1..Len(notebook.executed) :
         LET cell == notebook.cells[notebook.executed[k]]
         IN  /\ DictHas(notebook.results, cell.id)
             /\ DictGet(notebook.results, cell.id, "None") = CellOutcome(cell)
             /\ CellOutcome(cell).status \in {"success", "error"}
             /\ run_cell(cell).raised # "" =>
                  /\ DictGet(notebook.results, cell.id, "None").status = "error"
                  /\ DictGet(notebook.results, cell.id, "None").error
                       = run_cell(cell).raised

(***************************************************************************)
(* AgentOrchestrator.run_all_agents (agents/orchestrator.py).              *)
(***************************************************************************)
\* agents_123, in the order they are submitted to the pool (lines 24-28)
Agents123 == <<"Quality Inspector", "Feature Analyst", "Statistical Analyst">>

AgentOrder == Agents123 \o <<"ML Advisor", "Report Synthesizer">>

\* lines 24-37: the three agents are submitted to a pool of three workers
\* and run at the same time; finished lists the futures that are done and
\* not yet taken by as_completed, in the order they finished
NewAgents ==
  [state |-> "running",
   running |-> {Agents123[k] : k \in 1..Len(Agents123)},
   finished |-> <<>>,
   started |-> Agents123,
   results |-> <<>>,
   errors |-> <<>>,
   synthesizer_failed |-> FALSE]

\* lines 43-47, 81-85: the result is appended, or the error is noted
Collected(a, agent_name, ok) ==
  IF ok THEN [a EXCEPT !.results = Append(@, agent_name)]
  ELSE [a EXCEPT !.errors = Append(@, agent_name)]

(***************************************************************************)
(* SpecAgents: one call of run_all_agents; each agent returns or raises.   *)
(***************************************************************************)
InitAgents ==
  /\ agents = NewAgents
  /\ file = NoFile
  /\ load_result = NoLoad
  /\ db = NoDb
  /\ task = NoTask
  /\ llm = NoLlm
  /\ notebook = NoNotebook
  /\ caller = "test"
  /\ pc = "as_completed"
  /\ plan = <<>>
  /\ ran = ""
  /\ df = NoTable
  /\ df_in = NoTable
  /\ df0 = NoTable
  /\ context = PipelineContext("general", FALSE)
  /\ result = NoResult
  /\ all_logs = <<>>
  /\ summaries = <<>>

AgentsFrame ==
  UNCHANGED <<caller, plan, df0, df, df_in, context, result, all_logs,
              summaries, file, load_result, db, task, llm, notebook>>

\* a worker thread: agent.run returns or raises, at any time
AgentFinishes ==
  /\ pc = "as_completed"
  /\ \E agent_name \in agents.running, ok \in BOOLEAN :
       agents' = [agents EXCEPT
                    !.running = @ \ {agent_name},
                    !.finished = Append(@, [agent |-> agent_name, ok |-> ok])]
  /\ ran' = "agent"
  /\ UNCHANGED pc
  /\ AgentsFrame

\* lines 39-47: as_completed yields the next finished future
Collect ==
  /\ pc = "as_completed"
  /\ agents.finished # <<>>
  /\ agents' = [Collected(agents, Head(agents.finished).agent,
                          Head(agents.finished).ok)
                  EXCEPT !.finished = Tail(@)]
  /\ ran' = "collect"
  /\ UNCHANGED pc
  /\ AgentsFrame

\* the with block ends when every future was yielded; lines 49, 87, 101:
\* without a result nothing else runs
PoolDone ==
  /\ pc = "as_completed"
  /\ agents.running = {}
  /\ agents.finished = <<>>
  /\ IF agents.results # <<>>
     THEN pc' = "ml_advisor" /\ UNCHANGED agents
     ELSE pc' = "done" /\ agents' = [agents EXCEPT !.state = "returned"]
  /\ ran' = "pool"
  /\ AgentsFrame

\* lines 49-85: the ML Advisor runs in the calling thread
MLAdvisor ==
  /\ pc = "ml_advisor"
  /\ \E ok \in BOOLEAN :
       agents' = [Collected(agents, "ML Advisor", ok)
                    EXCEPT !.started = Append(@, "ML Advisor")]
  /\ pc' = "synthesize"
  /\ ran' = "ml_advisor"
  /\ AgentsFrame

\* lines 87-101: the synthesis, then return results
Synthesize ==
  /\ pc = "synthesize"
  /\ \E ok \in BOOLEAN :
       agents' = [agents EXCEPT
                    !.started = Append(@, "Report Synthesizer"),
                    !.results = IF ok THEN Append(@, "Report Synthesizer") ELSE @,
                    !.synthesizer_failed = ~ok,
                    !.state = "returned"]
  /\ pc' = "done"
  /\ ran' = "synthesize"
  /\ AgentsFrame

NextAgents == AgentFinishes \/ Collect \/ PoolDone \/ MLAdvisor \/ Synthesize

SpecAgents == InitAgents /\ [][NextAgents]_vars

(***************************************************************************)
(* Claims about run_all_agents (C22).                                      *)
(***************************************************************************)
AllAgentsSucceeded ==
  /\ agents # NoAgents
  /\ agents.state = "returned"
  /\ agents.errors = <<>>
  /\ ~agents.synthesizer_failed

\* C22: when all agents succeed, run_all_agents returns exactly five
\* reports in the order Quality Inspector, Feature Analyst, Statistical
\* Analyst, ML Advisor, Report Synthesizer, whichever of the three
\* concurrent agents finishes first; the ML Advisor starts only after the
\* three have finished, and the synthesizer only after the ML Advisor.
C22_FixedReportOrder ==
  /\ [](AllAgentsSucceeded => agents.results = AgentOrder)
  /\ [][ /\ (agents # NoAgents /\ agents'.started # agents.started) =>
              (agents.running = {} /\ agents.finished = <<>>)
         /\ (agents # NoAgents /\ Len(agents'.started) = 5
               /\ Len(agents.started) < 5) =>
              agents.started[Len(agents.started)] = "ML Advisor" ]_vars

=============================================================================
